---- MODULE Spec2Model ----
(***************************************************************************)
(* Model of the AI document editor backend: block extraction and the       *)
(* Patch Writer (backend/src/services/documentService.ts), and the session *)
(* handlers that record reviewer decisions (backend/src/index.ts).         *)
(*                                                                         *)
(* Text is modelled by TLA+ strings.  Positions are 0-based, as in the     *)
(* source; slice(s, a, b) is JavaScript's s.slice(a, b).  The character    *)
(* U+00A0 (non-breaking space) is written "~".                             *)
(***************************************************************************)
EXTENDS Integers, Sequences, FiniteSets, TLC

VARIABLES
    sourceBlocks,       \* session.sourceBlocks: sequence of [id, text, object]
    workingBlocks,      \* session.workingBlocks: sequence of [id, text, object]
    blockBindings,      \* session.blockBindings: blockId -> [partPath, paragraphIndex]
    sourceDocxBuffer,   \* session.sourceDocxBuffer (NoBuffer when undefined)
    workingDocxBuffer,  \* session.workingDocxBuffer (NoBuffer when undefined)
    proposalHistory,    \* session.proposalHistory: sequence of batches of edits
    response,           \* the HTTP response of the last request
    patchCall           \* the last request's use of the Patch Writer

vars == <<sourceBlocks, workingBlocks, blockBindings, sourceDocxBuffer,
          workingDocxBuffer, proposalHistory, response, patchCall>>

(***************************************************************************)
(* Characters and strings                                                  *)
(***************************************************************************)
NBSP == "~"
TAB == "\t"
LF == "\n"
CR == "\r"

LowerLetters == "abcdefghijklmnopqrstuvwxyz"
UpperLetters == "ABCDEFGHIJKLMNOPQRSTUVWXYZ"
DigitChars == "0123456789"

CharsOf(s) == { SubSeq(s, i, i) : i \in 1..Len(s) }

\* the character class [A-Za-z0-9']
WordChars == CharsOf(LowerLetters) \cup CharsOf(UpperLetters) \cup CharsOf(DigitChars) \cup {"'"}

\* the character class [.,;:!?]
PunctChars == {".", ",", ";", ":", "!", "?"}

\* what JavaScript's \s and String.prototype.trim treat as white space
WhiteSpace == {" ", TAB, LF, CR, NBSP}

\* s[i], the empty string standing for undefined
charAt(s, i) == IF i < 0 \/ i >= Len(s) THEN "" ELSE SubSeq(s, i + 1, i + 1)

Min(a, b) == IF a < b THEN a ELSE b

Max(a, b) == IF a > b THEN a ELSE b

Abs(a) == IF a < 0 THEN 0 - a ELSE a

\* s.slice(a, b) for integers a, b (negative arguments do not occur)
slice(s, a, b) ==
    LET lo == Min(Max(a, 0), Len(s))
        hi == Min(Max(b, 0), Len(s))
    IN  IF lo >= hi THEN "" ELSE SubSeq(s, lo + 1, hi)

sliceFrom(s, a) == slice(s, a, Len(s))

\* s.replace(/c/g, r) for a single character c
RECURSIVE replaceChar(_, _, _)
replaceChar(s, c, r) ==
    IF Len(s) = 0 THEN ""
    ELSE (IF charAt(s, 0) = c THEN r ELSE charAt(s, 0)) \o replaceChar(sliceFrom(s, 1), c, r)

\* the number of leading characters of s that belong to set
RECURSIVE runLength(_, _)
runLength(s, set) ==
    IF Len(s) = 0 \/ charAt(s, 0) \notin set THEN 0
    ELSE 1 + runLength(sliceFrom(s, 1), set)

\* s.replace(/[set]+/g, " ")
RECURSIVE collapseRuns(_, _)
collapseRuns(s, set) ==
    IF Len(s) = 0 THEN ""
    ELSE IF charAt(s, 0) \in set
         THEN " " \o collapseRuns(sliceFrom(s, runLength(s, set)), set)
         ELSE charAt(s, 0) \o collapseRuns(sliceFrom(s, 1), set)

RECURSIVE trimEnd(_)
trimEnd(s) ==
    IF Len(s) = 0 \/ charAt(s, Len(s) - 1) \notin WhiteSpace THEN s
    ELSE trimEnd(slice(s, 0, Len(s) - 1))

\* String.prototype.trim
trim(s) == trimEnd(sliceFrom(s, runLength(s, WhiteSpace)))

\* s.includes(t)
includes(s, t) == \E i \in 0..(Len(s) - Len(t)) : slice(s, i, i + Len(t)) = t

RECURSIVE joinStrings(_)
joinStrings(seq) ==
    IF Len(seq) = 0 THEN "" ELSE Head(seq) \o joinStrings(Tail(seq))

(***************************************************************************)
(* documentService.ts: text normalisation                                  *)
(***************************************************************************)
normalizeBlockText(text) ==
    trim(collapseRuns(replaceChar(replaceChar(replaceChar(text, NBSP, " "), CR, ""), LF, " "),
                      {" ", TAB}))

sanitizeReplacementText(text) ==
    collapseRuns(replaceChar(replaceChar(text, NBSP, " "), CR, ""), {LF})

requiresXmlSpacePreserve(text) ==
    \/ Len(text) > 0 /\ charAt(text, 0) \in WhiteSpace
    \/ Len(text) > 0 /\ charAt(text, Len(text) - 1) \in WhiteSpace
    \/ includes(text, "  ")
    \/ includes(text, TAB)

(***************************************************************************)
(* documentService.ts: the document package                                *)
(*                                                                         *)
(* A package (docx buffer) is a function from part paths to the sequence   *)
(* of its w:p paragraphs in document order; a paragraph is the sequence of *)
(* its w:t text-leaf nodes; a node is [text, space], space being the       *)
(* xml:space="preserve" attribute.  paragraphIndex is 0-based.             *)
(***************************************************************************)
NoBuffer == [p \in {} |-> <<>>]

\* no block bindings
NoBindings == [b \in {} |-> <<>>]

\* the parts matched by EDITABLE_PART_REGEX, in the order of editablePartPaths
EditablePartOrder == <<"word/document.xml", "word/header1.xml", "word/footer1.xml">>

editablePartPaths(zip) == SelectSeq(EditablePartOrder, LAMBDA path : path \in DOMAIN zip)

paragraphText(paragraph) == joinStrings([i \in 1..Len(paragraph) |-> paragraph[i].text])

setTextNodeValue(node, value) ==
    [text |-> value, space |-> requiresXmlSpacePreserve(value)]

\* as distributeLoop, but every node but the last takes one character more
RECURSIVE distributeLoop_offByOne(_, _, _, _)
distributeLoop_offByOne(originalLengths, replacement, index, cursor) ==
    IF index = Len(originalLengths) - 1
    THEN <<sliceFrom(replacement, cursor)>>
    ELSE LET remaining == Len(replacement) - cursor
         IN  IF remaining <= 0
             THEN <<"">> \o distributeLoop_offByOne(originalLengths, replacement, index + 1, cursor)
             ELSE LET take == Min(originalLengths[index + 1] + 1, remaining)
                  IN  <<slice(replacement, cursor, cursor + take)>>
                      \o distributeLoop_offByOne(originalLengths, replacement, index + 1,
                                                 cursor + take)

RECURSIVE distributeLoop(_, _, _, _)
distributeLoop(originalLengths, replacement, index, cursor) ==
    IF index = Len(originalLengths) - 1
    THEN <<sliceFrom(replacement, cursor)>>
    ELSE LET remaining == Len(replacement) - cursor
         IN  IF remaining <= 0
             THEN <<"">> \o distributeLoop(originalLengths, replacement, index + 1, cursor)
             ELSE LET take == Min(originalLengths[index + 1], remaining)
                  IN  <<slice(replacement, cursor, cursor + take)>>
                      \o distributeLoop(originalLengths, replacement, index + 1, cursor + take)

\* as distributeTextAcrossNodes, without the case of lines 109-113 for a
\* paragraph whose nodes are all empty
distributeTextAcrossNodes_noEmptyCase(textNodes, replacement) ==
    IF Len(textNodes) = 1 THEN <<replacement>>
    ELSE distributeLoop([i \in 1..Len(textNodes) |-> Len(textNodes[i].text)], replacement, 0, 0)

distributeTextAcrossNodes(textNodes, replacement) ==
    IF Len(textNodes) = 1 THEN <<replacement>>
    ELSE LET originalLengths == [i \in 1..Len(textNodes) |-> Len(textNodes[i].text)]
         IN  IF \A i \in 1..Len(textNodes) : originalLengths[i] = 0
             THEN [i \in 1..Len(textNodes) |-> IF i = 1 THEN replacement ELSE ""]
             ELSE distributeLoop(originalLengths, replacement, 0, 0)

\* as writeParagraph, but a node that receives no text is removed from the paragraph
writeParagraph_dropEmpty(textNodes, text) ==
    LET chunks == distributeTextAcrossNodes(textNodes, text)
        written == [i \in 1..Len(textNodes) |->
                       setTextNodeValue(textNodes[i], IF i <= Len(chunks) THEN chunks[i] ELSE "")]
    IN  SelectSeq(written, LAMBDA node : Len(node.text) > 0)

\* lines 268-271: the chunks are written to the paragraph's nodes in order
writeParagraph(textNodes, text) ==
    LET chunks == distributeTextAcrossNodes(textNodes, text)
    IN  [i \in 1..Len(textNodes) |->
            setTextNodeValue(textNodes[i], IF i <= Len(chunks) THEN chunks[i] ELSE "")]

\* lines 216-228: the updates that have a binding, sanitized, in order
RECURSIVE resolveUpdates(_, _)
resolveUpdates(updates, bindings) ==
    IF Len(updates) = 0 THEN <<>>
    ELSE LET update == Head(updates)
             rest == resolveUpdates(Tail(updates), bindings)
         IN  IF update.blockId \notin DOMAIN bindings THEN rest
             ELSE <<[partPath |-> bindings[update.blockId].partPath,
                     paragraphIndex |-> bindings[update.blockId].paragraphIndex,
                     text |-> sanitizeReplacementText(update.text)]>> \o rest

\* the keys of updatesByPart, in Map insertion order
RECURSIVE updatesByPartKeys(_, _)
updatesByPartKeys(resolved, seen) ==
    IF Len(resolved) = 0 THEN <<>>
    ELSE IF Head(resolved).partPath \in seen
         THEN updatesByPartKeys(Tail(resolved), seen)
         ELSE <<Head(resolved).partPath>>
              \o updatesByPartKeys(Tail(resolved), seen \cup {Head(resolved).partPath})

\* as applyPartUpdates, but the first update that cannot be applied ends the
\* loop over the updates of the part
RECURSIVE applyPartUpdates_stopAtSkipped(_, _, _)
applyPartUpdates_stopAtSkipped(paragraphs, updates, changed) ==
    IF Len(updates) = 0 THEN [paragraphs |-> paragraphs, changed |-> changed]
    ELSE LET update == Head(updates)
             at == update.paragraphIndex + 1
         IN  IF at \notin DOMAIN paragraphs \/ Len(paragraphs[at]) = 0
             THEN [paragraphs |-> paragraphs, changed |-> changed]
             ELSE applyPartUpdates_stopAtSkipped(
                      [paragraphs EXCEPT ![at] = writeParagraph(@, update.text)],
                      Tail(updates), TRUE)

\* lines 248-273: the updates of one part, applied in order to its paragraphs
RECURSIVE applyPartUpdates(_, _, _)
applyPartUpdates(paragraphs, updates, changed) ==
    IF Len(updates) = 0 THEN [paragraphs |-> paragraphs, changed |-> changed]
    ELSE LET update == Head(updates)
             at == update.paragraphIndex + 1
         IN  IF at \notin DOMAIN paragraphs
             THEN applyPartUpdates(paragraphs, Tail(updates), changed)
             ELSE IF Len(paragraphs[at]) = 0
                  THEN applyPartUpdates(paragraphs, Tail(updates), changed)
                  ELSE applyPartUpdates(
                           [paragraphs EXCEPT ![at] = writeParagraph(@, update.text)],
                           Tail(updates), TRUE)

\* lines 234-278: the loop over the parts; changed is one flag for the whole batch
RECURSIVE applyParts(_, _, _, _, _)
applyParts(zip, keys, resolved, changed, rewritten) ==
    IF Len(keys) = 0 THEN [zip |-> zip, changed |-> changed, rewritten |-> rewritten]
    ELSE LET partPath == Head(keys)
         IN  IF partPath \notin DOMAIN zip
             THEN applyParts(zip, Tail(keys), resolved, changed, rewritten)
             ELSE LET done == applyPartUpdates(zip[partPath],
                                  SelectSeq(resolved, LAMBDA u : u.partPath = partPath),
                                  changed)
                  IN  IF done.changed
                      THEN applyParts([zip EXCEPT ![partPath] = done.paragraphs],
                                      Tail(keys), resolved, TRUE, rewritten \cup {partPath})
                      ELSE applyParts(zip, Tail(keys), resolved, FALSE, rewritten)

\* as applyEditsToDocxBuffer, but without the early returns: every part of the
\* package is serialized again whatever the batch
applyEditsToDocxBuffer_alwaysSerialize(buffer, updates, bindings) ==
    LET resolved == resolveUpdates(updates, bindings)
        done == applyParts(buffer, updatesByPartKeys(resolved, {}), resolved, FALSE, {})
    IN  [buffer |-> done.zip, rewritten |-> DOMAIN buffer, copy |-> FALSE]

\* The result: the returned buffer, the parts replaced in the package by
\* zip.file(partPath, ...), and whether the result is Buffer.from(args.buffer).
applyEditsToDocxBuffer(buffer, updates, bindings) ==
    LET unchangedCopy == [buffer |-> buffer, rewritten |-> {}, copy |-> TRUE]
        resolved == resolveUpdates(updates, bindings)
        done == applyParts(buffer, updatesByPartKeys(resolved, {}), resolved, FALSE, {})
    IN  IF Len(updates) = 0 THEN unchangedCopy
        ELSE IF Len(resolved) = 0 THEN unchangedCopy
        ELSE IF ~done.changed THEN unchangedCopy
        ELSE [buffer |-> done.zip, rewritten |-> done.rewritten, copy |-> FALSE]

\* as parseParagraphs, with a paragraph index that counts the paragraphs that
\* gave a block only
RECURSIVE parseParagraphs_keptOnly(_, _, _, _)
parseParagraphs_keptOnly(partPath, paragraphs, paragraphIndex, acc) ==
    IF paragraphIndex >= Len(paragraphs) THEN acc
    ELSE LET textNodes == paragraphs[paragraphIndex + 1]
             normalized == normalizeBlockText(paragraphText(textNodes))
             blockId == Len(acc.blocks) + 1
             kept == Cardinality({ id \in DOMAIN acc.blockBindings :
                                     acc.blockBindings[id].partPath = partPath })
         IN  IF Len(textNodes) = 0 \/ normalized = ""
             THEN parseParagraphs_keptOnly(partPath, paragraphs, paragraphIndex + 1, acc)
             ELSE parseParagraphs_keptOnly(partPath, paragraphs, paragraphIndex + 1,
                      [blocks |-> Append(acc.blocks, [id |-> blockId, text |-> normalized,
                                                  object |-> "parsed"]),
                       blockBindings |-> acc.blockBindings @@
                           (blockId :> [partPath |-> partPath, paragraphIndex |-> kept])])

\* lines 164-187: the paragraphs of one part; block ids are minted in order
RECURSIVE parseParagraphs(_, _, _, _)
parseParagraphs(partPath, paragraphs, paragraphIndex, acc) ==
    IF paragraphIndex >= Len(paragraphs) THEN acc
    ELSE LET textNodes == paragraphs[paragraphIndex + 1]
             normalized == normalizeBlockText(paragraphText(textNodes))
             blockId == Len(acc.blocks) + 1
         IN  IF Len(textNodes) = 0 \/ normalized = ""
             THEN parseParagraphs(partPath, paragraphs, paragraphIndex + 1, acc)
             ELSE parseParagraphs(partPath, paragraphs, paragraphIndex + 1,
                      [blocks |-> Append(acc.blocks, [id |-> blockId, text |-> normalized,
                                                  object |-> "parsed"]),
                       blockBindings |-> acc.blockBindings @@
                           (blockId :> [partPath |-> partPath,
                                        paragraphIndex |-> paragraphIndex])])

RECURSIVE parseParts(_, _, _)
parseParts(zip, paths, acc) ==
    IF Len(paths) = 0 THEN acc
    ELSE parseParts(zip, Tail(paths), parseParagraphs(Head(paths), zip[Head(paths)], 0, acc))

parseDocxToBlocks(buffer) ==
    parseParts(buffer, editablePartPaths(buffer),
               [blocks |-> <<>>, blockBindings |-> NoBindings])

(***************************************************************************)
(* index.ts: the atomic tokenizer                                          *)
(***************************************************************************)
\* as tokenSpansFrom, with the apostrophe taken for a character that ends a word
RECURSIVE tokenSpansFrom_noApostrophe(_, _)
tokenSpansFrom_noApostrophe(value, pos) ==
    IF pos >= Len(value) THEN <<>>
    ELSE IF charAt(value, pos) \in WordChars \ {"'"}
         THEN LET n == runLength(sliceFrom(value, pos), WordChars \ {"'"})
              IN  <<[value |-> slice(value, pos, pos + n), start |-> pos, end |-> pos + n]>>
                  \o tokenSpansFrom_noApostrophe(value, pos + n)
         ELSE IF charAt(value, pos) \in PunctChars
              THEN <<[value |-> charAt(value, pos), start |-> pos, end |-> pos + 1]>>
                   \o tokenSpansFrom_noApostrophe(value, pos + 1)
              ELSE tokenSpansFrom_noApostrophe(value, pos + 1)

\* the matches of /[A-Za-z0-9']+|[.,;:!?]/g in value, from position pos on
RECURSIVE tokenSpansFrom(_, _)
tokenSpansFrom(value, pos) ==
    IF pos >= Len(value) THEN <<>>
    ELSE IF charAt(value, pos) \in WordChars
         THEN LET n == runLength(sliceFrom(value, pos), WordChars)
              IN  <<[value |-> slice(value, pos, pos + n), start |-> pos, end |-> pos + n]>>
                  \o tokenSpansFrom(value, pos + n)
         ELSE IF charAt(value, pos) \in PunctChars
              THEN <<[value |-> charAt(value, pos), start |-> pos, end |-> pos + 1]>>
                   \o tokenSpansFrom(value, pos + 1)
              ELSE tokenSpansFrom(value, pos + 1)

extractAtomicTokenSpans(value) == tokenSpansFrom(value, 0)

extractAtomicTokens(value) ==
    LET spans == tokenSpansFrom(value, 0)
    IN  [i \in 1..Len(spans) |-> spans[i].value]

(***************************************************************************)
(* The word diff of the "diff" package, which the repository imports       *)
(* (diffWords).  The texts are split into words, runs of white space and    *)
(* single other characters; runs of white space compare equal; the parts   *)
(* follow a longest common subsequence of the tokens; between two matched  *)
(* tokens the removed text comes before the added text; the text of an     *)
(* unchanged part is taken from the new text.                              *)
(***************************************************************************)
DiffWordChars == WordChars \ {"'"}

DiffSpaceChars == {" ", TAB, NBSP}

RECURSIVE diffTokenize(_)
diffTokenize(text) ==
    IF Len(text) = 0 THEN <<>>
    ELSE LET n == IF charAt(text, 0) \in DiffWordChars THEN runLength(text, DiffWordChars)
                  ELSE IF charAt(text, 0) \in DiffSpaceChars THEN runLength(text, DiffSpaceChars)
                  ELSE 1
         IN  <<slice(text, 0, n)>> \o diffTokenize(sliceFrom(text, n))

isSpaceToken(token) == charAt(token, 0) \in DiffSpaceChars

diffTokenEquals(left, right) ==
    left = right \/ (isSpaceToken(left) /\ isSpaceToken(right))

\* the largest number of a non-empty set of numbers
MaxOf(numbers) == CHOOSE n \in numbers : \A other \in numbers : other <= n

\* the row of token in the table of lcsTable: for each column j, the length of
\* the longest common subsequence of the old tokens from token on with the
\* new tokens from j on.  below is the row of the next old token: token is
\* left out, or it is matched with a new token k >= j
lcsRow(token, new, below) ==
    SubSeq([j \in 1..(Len(new) + 1) |->
               MaxOf({below[j]} \cup { below[k + 1] + 1 : k \in { k \in j..Len(new) :
                                                            diffTokenEquals(token, new[k]) } })],
           1, Len(new) + 1)

\* the rows of the old tokens from 1 on, and the row of the end of old; rows
\* holds the rows below old token i
RECURSIVE lcsRows(_, _, _, _)
lcsRows(old, new, i, rows) ==
    IF Len(rows) > 0 /\ i = 0 THEN rows
    ELSE lcsRows(old, new, i - 1, <<lcsRow(old[i], new, Head(rows))>> \o rows)

lcsTable(old, new) == lcsRows(old, new, Len(old), <<[j \in 1..(Len(new) + 1) |-> 0]>>)

lcsLength(old, new) == lcsTable(old, new)[1][1]

diffPart(value, added, removed) == [value |-> value, added |-> added, removed |-> removed]

\* one part per token, from old token i and new token j on, after the parts
\* done; table[i][j] is the length of the longest common subsequence of what
\* is left of both
RECURSIVE diffFrom(_, _, _, _, _, _)
diffFrom(old, new, table, i, j, done) ==
    IF Len(done) >= 0 /\ i > Len(old)
    THEN done \o [k \in 1..(Len(new) - j + 1) |-> diffPart(new[j + k - 1], TRUE, FALSE)]
    ELSE IF j > Len(new)
         THEN done \o [k \in 1..(Len(old) - i + 1) |-> diffPart(old[i + k - 1], FALSE, TRUE)]
    ELSE IF diffTokenEquals(old[i], new[j])
         THEN diffFrom(old, new, table, i + 1, j + 1, Append(done, diffPart(new[j], FALSE, FALSE)))
         ELSE IF table[i + 1][j] >= table[i][j + 1]
              THEN diffFrom(old, new, table, i + 1, j, Append(done, diffPart(old[i], FALSE, TRUE)))
              ELSE diffFrom(old, new, table, i, j + 1, Append(done, diffPart(new[j], TRUE, FALSE)))

diffTokens(old, new) == diffFrom(old, new, lcsTable(old, new), 1, 1, <<>>)

isUnchanged(part) == ~part.added /\ ~part.removed

\* the number of leading parts that are unchanged (want = TRUE) or changed
RECURSIVE partRun(_, _)
partRun(parts, want) ==
    IF Len(parts) = 0 \/ isUnchanged(Head(parts)) # want THEN 0
    ELSE 1 + partRun(Tail(parts), want)

joinParts(parts, keep(_)) ==
    LET kept == SelectSeq(parts, keep)
    IN  joinStrings([i \in 1..Len(kept) |-> kept[i].value])

\* consecutive parts of one kind are merged, removed text first
RECURSIVE mergeParts(_)
mergeParts(parts) ==
    IF Len(parts) = 0 THEN <<>>
    ELSE IF isUnchanged(Head(parts))
         THEN LET n == partRun(parts, TRUE)
              IN  <<diffPart(joinParts(SubSeq(parts, 1, n), LAMBDA p : TRUE), FALSE, FALSE)>>
                  \o mergeParts(SubSeq(parts, n + 1, Len(parts)))
         ELSE LET n == partRun(parts, FALSE)
                  removedText == joinParts(SubSeq(parts, 1, n), LAMBDA p : p.removed)
                  addedText == joinParts(SubSeq(parts, 1, n), LAMBDA p : p.added)
              IN  (IF Len(removedText) > 0 THEN <<diffPart(removedText, FALSE, TRUE)>> ELSE <<>>)
                  \o (IF Len(addedText) > 0 THEN <<diffPart(addedText, TRUE, FALSE)>> ELSE <<>>)
                  \o mergeParts(SubSeq(parts, n + 1, Len(parts)))

diffWords(oldText, newText) == mergeParts(diffTokens(diffTokenize(oldText), diffTokenize(newText)))

(***************************************************************************)
(* index.ts: word changes                                                  *)
(***************************************************************************)
Removed == "(removed)"

\* as pairTokens, without the fallback to the last added token
pairTokens_noFallback(removedTokens, addedTokens, clusterStart) ==
    [k \in 1..Len(removedTokens) |->
        [from |-> removedTokens[k].value,
         to |-> IF k <= Len(addedTokens) THEN addedTokens[k] ELSE Removed,
         start |-> clusterStart + removedTokens[k].start,
         end |-> clusterStart + removedTokens[k].end]]

\* lines 273-281: one word change per removed token
pairTokens(removedTokens, addedTokens, clusterStart) ==
    [k \in 1..Len(removedTokens) |->
        [from |-> removedTokens[k].value,
         to |-> IF k <= Len(addedTokens) THEN addedTokens[k]
                ELSE IF Len(addedTokens) > 0 THEN addedTokens[Len(addedTokens)]
                ELSE Removed,
         start |-> clusterStart + removedTokens[k].start,
         end |-> clusterStart + removedTokens[k].end]]

\* lines 241-282: the loop over the parts, from part index on (0-based)
RECURSIVE deriveFrom(_, _, _)
deriveFrom(parts, index, cursor) ==
    IF index >= Len(parts) THEN <<>>
    ELSE IF isUnchanged(parts[index + 1])
         THEN deriveFrom(parts, index + 1, cursor + Len(parts[index + 1].value))
         ELSE LET n == partRun(SubSeq(parts, index + 1, Len(parts)), FALSE)
                  cluster == SubSeq(parts, index + 1, index + n)
                  removedSegment == joinParts(cluster, LAMBDA p : p.removed)
                  addedSegment == joinParts(cluster, LAMBDA p : ~p.removed /\ p.added)
                  removedTokens == extractAtomicTokenSpans(removedSegment)
              IN  (IF Len(removedTokens) = 0 THEN <<>>
                   ELSE pairTokens(removedTokens, extractAtomicTokens(addedSegment), cursor))
                  \o deriveFrom(parts, index + n, cursor + Len(removedSegment))

deriveWordChanges(originalText, proposedText) ==
    deriveFrom(diffWords(originalText, proposedText), 0, 0)

(***************************************************************************)
(* index.ts: the offset-compensated locator                                *)
(***************************************************************************)
lowerChar(c) ==
    IF c \in CharsOf(UpperLetters)
    THEN charAt(LowerLetters, CHOOSE i \in 0..(Len(UpperLetters) - 1) : charAt(UpperLetters, i) = c)
    ELSE c

RECURSIVE toLowerCase(_)
toLowerCase(s) ==
    IF Len(s) = 0 THEN "" ELSE lowerChar(charAt(s, 0)) \o toLowerCase(sliceFrom(s, 1))

isWordToken(value) ==
    Len(value) > 0 /\ \A i \in 0..(Len(value) - 1) : charAt(value, i) \in WordChars

isWordChar(value) == \E i \in 0..(Len(value) - 1) : charAt(value, i) \in WordChars

\* as hasTokenBoundaries, looking at the character before the span only
hasTokenBoundaries_beforeOnly(text, start, token) ==
    IF ~isWordToken(token) THEN TRUE
    ELSE LET prev == IF start > 0 THEN charAt(text, start - 1) ELSE ""
         IN  prev = "" \/ ~isWordChar(prev)

hasTokenBoundaries(text, start, token) ==
    IF ~isWordToken(token) THEN TRUE
    ELSE LET end == start + Len(token)
             prev == IF start > 0 THEN charAt(text, start - 1) ELSE ""
             next == IF end < Len(text) THEN charAt(text, end) ELSE ""
         IN  (prev = "" \/ ~isWordChar(prev)) /\ (next = "" \/ ~isWordChar(next))

\* haystack.indexOf(needle, from)
indexOf(haystack, needle, from) ==
    LET hits == { i \in from..(Len(haystack) - Len(needle)) :
                    slice(haystack, i, i + Len(needle)) = needle }
    IN  IF hits = {} THEN -1 ELSE CHOOSE i \in hits : \A k \in hits : i <= k

RECURSIVE tokenStartsFrom(_, _, _)
tokenStartsFrom(haystack, needle, cursor) ==
    IF cursor > Len(haystack) - Len(needle) THEN <<>>
    ELSE LET index == indexOf(haystack, needle, cursor)
         IN  IF index < 0 THEN <<>>
             ELSE <<index>> \o tokenStartsFrom(haystack, needle, index + 1)

collectTokenStarts(text, token, ignoreCase) ==
    IF Len(token) = 0 THEN <<>>
    ELSE tokenStartsFrom(IF ignoreCase THEN toLowerCase(text) ELSE text,
                         IF ignoreCase THEN toLowerCase(token) ELSE token, 0)

\* lines 335-345
tryDirect(text, token, expectedStart, ignoreCase) ==
    IF expectedStart < 0 \/ expectedStart + Len(token) > Len(text) THEN -1
    ELSE LET piece == slice(text, expectedStart, expectedStart + Len(token))
             matched == IF ignoreCase THEN toLowerCase(piece) = toLowerCase(token)
                        ELSE piece = token
         IN  IF ~matched \/ ~hasTokenBoundaries(text, expectedStart, token) THEN -1
             ELSE expectedStart

boundaryCandidates(text, token, candidates) ==
    SelectSeq(candidates, LAMBDA start : hasTokenBoundaries(text, start, token))

\* lines 369-380: the candidate closest to expectedStart
RECURSIVE closestCandidate(_, _, _, _)
closestCandidate(candidates, index, best, expectedStart) ==
    IF index >= Len(candidates) THEN best
    ELSE LET start == candidates[index + 1]
             distance == Abs(start - expectedStart)
             bestDistance == Abs(best - expectedStart)
         IN  IF distance < bestDistance \/ (distance = bestDistance /\ start < best)
             THEN closestCandidate(candidates, index + 1, start, expectedStart)
             ELSE closestCandidate(candidates, index + 1, best, expectedStart)

\* as findBestTokenStart, with the occurrences in any case as candidates
\* even when the text holds the token in its own case
findBestTokenStart_anyCaseCandidates(text, token, expectedStart) ==
    IF Len(token) = 0 THEN -1
    ELSE IF tryDirect(text, token, expectedStart, FALSE) >= 0
         THEN tryDirect(text, token, expectedStart, FALSE)
    ELSE IF tryDirect(text, token, expectedStart, TRUE) >= 0
         THEN tryDirect(text, token, expectedStart, TRUE)
    ELSE LET candidates ==
                 boundaryCandidates(text, token, collectTokenStarts(text, token, TRUE))
         IN  IF Len(candidates) = 0 THEN -1
             ELSE closestCandidate(candidates, 1, candidates[1], expectedStart)

findBestTokenStart(text, token, expectedStart) ==
    IF Len(token) = 0 THEN -1
    ELSE IF tryDirect(text, token, expectedStart, FALSE) >= 0
         THEN tryDirect(text, token, expectedStart, FALSE)
    ELSE IF tryDirect(text, token, expectedStart, TRUE) >= 0
         THEN tryDirect(text, token, expectedStart, TRUE)
    ELSE LET exactCandidates ==
                 boundaryCandidates(text, token, collectTokenStarts(text, token, FALSE))
             candidates ==
                 IF Len(exactCandidates) > 0 THEN exactCandidates
                 ELSE boundaryCandidates(text, token, collectTokenStarts(text, token, TRUE))
         IN  IF Len(candidates) = 0 THEN -1
             ELSE closestCandidate(candidates, 1, candidates[1], expectedStart)

Statuses == {"pending", "accepted", "rejected"}

allStatus(wordChanges, status) == [i \in 1..Len(wordChanges) |-> status]

normalizeWordChangeStatuses(wordChanges, existing) ==
    IF Len(existing) = Len(wordChanges) /\ \A i \in 1..Len(existing) : existing[i] \in Statuses
    THEN existing
    ELSE allStatus(wordChanges, "pending")

replacementOf(change) == IF change.to = Removed THEN "" ELSE change.to

\* as offsetDelta, but an accepted change counts wherever it starts
RECURSIVE offsetDelta_anyStart(_, _, _, _)
offsetDelta_anyStart(change, allWordChanges, statuses, index) ==
    IF index >= Len(allWordChanges) THEN 0
    ELSE LET priorChange == allWordChanges[index + 1]
         IN  (IF statuses[index + 1] # "accepted" \/ priorChange.start = change.start
              THEN 0
              ELSE Len(replacementOf(priorChange)) - Len(priorChange.from))
             + offsetDelta_anyStart(change, allWordChanges, statuses, index + 1)

\* lines 401-409: the offset delta, the loop from index on (0-based)
RECURSIVE offsetDelta(_, _, _, _)
offsetDelta(change, allWordChanges, statuses, index) ==
    IF index >= Len(allWordChanges) THEN 0
    ELSE LET priorChange == allWordChanges[index + 1]
         IN  (IF statuses[index + 1] # "accepted" \/ priorChange.start >= change.start
              THEN 0
              ELSE Len(replacementOf(priorChange)) - Len(priorChange.from))
             + offsetDelta(change, allWordChanges, statuses, index + 1)

\* The result of applySingleWordChange: found = FALSE stands for null;
\* expectedStart and start are the locals of the function.
applySingleWordChange(currentText, change, allWordChanges, statuses) ==
    LET expectedStart == change.start + offsetDelta(change, allWordChanges, statuses, 0)
        start == findBestTokenStart(currentText, change.from, expectedStart)
    IN  [found |-> start >= 0,
         expectedStart |-> expectedStart,
         start |-> start,
         text |-> IF start < 0 THEN ""
                  ELSE slice(currentText, 0, start) \o replacementOf(change)
                       \o sliceFrom(currentText, start + Len(change.from))]

\* as resolveStatusFromWordChanges, but an accepted word change decides
\* the edit while others are pending
resolveStatusFromWordChanges_acceptedFirst(statuses) ==
    IF \E i \in 1..Len(statuses) : statuses[i] = "accepted" THEN "accepted"
    ELSE IF \E i \in 1..Len(statuses) : statuses[i] = "pending" THEN "pending"
    ELSE "rejected"

resolveStatusFromWordChanges(statuses) ==
    IF \E i \in 1..Len(statuses) : statuses[i] = "pending" THEN "pending"
    ELSE IF \E i \in 1..Len(statuses) : statuses[i] = "accepted" THEN "accepted"
    ELSE "rejected"

(***************************************************************************)
(* The record of a request's use of the Patch Writer                       *)
(***************************************************************************)
NoPatchCall ==
    [calls |-> 0, before |-> NoBuffer, updates |-> <<>>,
     bindings |-> NoBindings, rewritten |-> {}, copy |-> FALSE]

PatchCallOf(calls, buffer, updates, bindings, result) ==
    [calls |-> calls, before |-> buffer, updates |-> updates, bindings |-> bindings,
     rewritten |-> result.rewritten, copy |-> result.copy]

\* wordChangeIndex absent from the payload
NoWordIndex == -1

\* the id of no edit
NoEditId == <<0, 0>>

\* The response of the last request.  A successful decision echoes editId,
\* decision and wordChangeIndex; an error carries its status and message only.
\* expectedStart and start are the locator's locals when the request reached
\* applySingleWordChange; count is acceptedCount, updatedCount or blockCount.
NoResponse ==
    [op |-> "none", status |-> 0, error |-> "", count |-> 0, editId |-> NoEditId,
     decision |-> "", wordChangeIndex |-> NoWordIndex, expectedStart |-> -1, start |-> -1]

Respond(op, status, error) == [NoResponse EXCEPT !.op = op, !.status = status, !.error = error]

(***************************************************************************)
(* index.ts: the session handlers.  There is one session, created by       *)
(* POST /api/session.  An edit is identified by <<batch, position>>.       *)
(***************************************************************************)
\* A block is a JavaScript object: two arrays may hold the same object, and a
\* write to its text through one array is read through the other.  The field
\* object of a block, with its id, is the identity of the object: the blocks
\* made by parseDocxToBlocks are the objects "parsed", and cloneBlocks makes
\* one new object per block for the copy it is called for.
cloneBlocks_sameObjects(blocks, copy) == blocks

\* lines 69-71: blocks.map((block) => ({ ...block }))
cloneBlocks(blocks, copy) == [i \in 1..Len(blocks) |-> [blocks[i] EXCEPT !.object = copy]]

\* what the array blocks reads once the objects of the array written have
\* been given the texts of the array after (same objects, same order)
writtenThrough(blocks, written, after) ==
    [i \in 1..Len(blocks) |->
        IF \E j \in 1..Len(written) :
               written[j].object = blocks[i].object /\ written[j].id = blocks[i].id
        THEN [blocks[i] EXCEPT !.text =
                 after[CHOOSE j \in 1..Len(written) :
                           written[j].object = blocks[i].object
                               /\ written[j].id = blocks[i].id].text]
        ELSE blocks[i]]

\* session.workingBlocks.find((item) => item.id === id), 0 when there is none
blockIndexOf(blocks, id) ==
    IF \E i \in 1..Len(blocks) : blocks[i].id = id
    THEN CHOOSE i \in 1..Len(blocks) : blocks[i].id = id /\ \A k \in 1..(i - 1) : blocks[k].id # id
    ELSE 0

\* as setBlockText, writing the text to the blocks before the block found too
setBlockText_upToBlock(blocks, id, text) ==
    [i \in 1..Len(blocks) |->
        IF i <= blockIndexOf(blocks, id) THEN [blocks[i] EXCEPT !.text = text] ELSE blocks[i]]

setBlockText(blocks, id, text) ==
    IF blockIndexOf(blocks, id) = 0 THEN blocks
    ELSE [blocks EXCEPT ![blockIndexOf(blocks, id)].text = text]

editExists(history, editId) ==
    /\ editId[1] \in 1..Len(history)
    /\ editId[2] \in 1..Len(history[editId[1]].edits)

editAt(history, editId) == history[editId[1]].edits[editId[2]]

setEdit(history, editId, edit) == [history EXCEPT ![editId[1]].edits[editId[2]] = edit]

statusOf(decision) == IF decision = "accept" THEN "accepted" ELSE "rejected"

\* What a decision request leaves behind: the edit record, the working
\* blocks, the working buffer, the Patch Writer call and the response.
DecisionResult(edit, blocks, buffer, patch, status, error, located) ==
    [edit |-> edit, blocks |-> blocks, buffer |-> buffer, patch |-> patch,
     status |-> status, error |-> error,
     expectedStart |-> located.expectedStart, start |-> located.start]

NotLocated == [expectedStart |-> -1, start |-> -1]

\* lines 981-1025: the word-level branch
wordLevelDecision(editRecord, decision, requestedWordIndex) ==
    LET wordChanges == editRecord.wordChanges
        existing == normalizeWordChangeStatuses(wordChanges, editRecord.wordChangeStatuses)
        statuses == [existing EXCEPT ![requestedWordIndex + 1] = statusOf(decision)]
        marked == [editRecord EXCEPT !.wordChangeStatuses = statuses]
        at == blockIndexOf(workingBlocks, editRecord.blockId)
        applied == applySingleWordChange(workingBlocks[at].text, wordChanges[requestedWordIndex + 1],
                                         wordChanges, statuses)
        patched == applyEditsToDocxBuffer(workingDocxBuffer,
                       <<[blockId |-> editRecord.blockId, text |-> applied.text]>>, blockBindings)
        resolved == [marked EXCEPT !.status = resolveStatusFromWordChanges(statuses)]
    IN  IF requestedWordIndex < 0 \/ requestedWordIndex >= Len(wordChanges)
        THEN DecisionResult(editRecord, workingBlocks, workingDocxBuffer, NoPatchCall,
                            400, "index-out-of-range", NotLocated)
        ELSE IF existing[requestedWordIndex + 1] # "pending"
        THEN DecisionResult(editRecord, workingBlocks, workingDocxBuffer, NoPatchCall,
                            409, "word-already-decided", NotLocated)
        ELSE IF decision # "accept"
        THEN DecisionResult(resolved, workingBlocks, workingDocxBuffer, NoPatchCall,
                            200, "", NotLocated)
        ELSE IF at = 0
        THEN DecisionResult(marked, workingBlocks, workingDocxBuffer, NoPatchCall,
                            404, "block-not-found", NotLocated)
        ELSE IF workingDocxBuffer = NoBuffer
        THEN DecisionResult(marked, workingBlocks, workingDocxBuffer, NoPatchCall,
                            400, "buffer-missing", NotLocated)
        ELSE IF ~applied.found
        THEN DecisionResult(marked, workingBlocks, workingDocxBuffer, NoPatchCall,
                            409, "token-not-found", applied)
        ELSE DecisionResult(resolved,
                            [workingBlocks EXCEPT ![at].text = applied.text],
                            patched.buffer,
                            PatchCallOf(1, workingDocxBuffer,
                                <<[blockId |-> editRecord.blockId, text |-> applied.text]>>,
                                blockBindings, patched),
                            200, "", applied)

\* as wholeEditDecision, with the word-change statuses left as they are and
\* the accepted text written only where the block still reads the original
wholeEditDecision_undecidedWords(editRecord, decision, hasWordChanges) ==
    LET decided == [editRecord EXCEPT !.status = statusOf(decision)]
        at == blockIndexOf(workingBlocks, editRecord.blockId)
        stale == at # 0 /\ workingBlocks[at].text # editRecord.originalText
        blocks == IF stale THEN workingBlocks
                  ELSE setBlockText(workingBlocks, editRecord.blockId, editRecord.proposedText)
        updates == IF stale THEN <<>>
                   ELSE <<[blockId |-> editRecord.blockId, text |-> editRecord.proposedText]>>
        patched == applyEditsToDocxBuffer(workingDocxBuffer, updates, blockBindings)
    IN  IF decision # "accept"
        THEN DecisionResult(decided, workingBlocks, workingDocxBuffer, NoPatchCall,
                            200, "", NotLocated)
        ELSE IF workingDocxBuffer = NoBuffer
        THEN DecisionResult(decided, blocks, workingDocxBuffer, NoPatchCall,
                            400, "buffer-missing", NotLocated)
        ELSE DecisionResult(decided, blocks, patched.buffer,
                            PatchCallOf(1, workingDocxBuffer, updates, blockBindings, patched),
                            200, "", NotLocated)

\* lines 1026-1054: the whole-edit branch
wholeEditDecision(editRecord, decision, hasWordChanges) ==
    LET decided == [editRecord EXCEPT
                       !.status = statusOf(decision),
                       !.wordChangeStatuses =
                           IF hasWordChanges
                           THEN allStatus(editRecord.wordChanges, statusOf(decision))
                           ELSE @]
        blocks == setBlockText(workingBlocks, editRecord.blockId, editRecord.proposedText)
        updates == <<[blockId |-> editRecord.blockId, text |-> editRecord.proposedText]>>
        patched == applyEditsToDocxBuffer(workingDocxBuffer, updates, blockBindings)
    IN  IF decision # "accept"
        THEN DecisionResult(decided, workingBlocks, workingDocxBuffer, NoPatchCall,
                            200, "", NotLocated)
        ELSE IF workingDocxBuffer = NoBuffer
        THEN DecisionResult(decided, blocks, workingDocxBuffer, NoPatchCall,
                            400, "buffer-missing", NotLocated)
        ELSE DecisionResult(decided, blocks, patched.buffer,
                            PatchCallOf(1, workingDocxBuffer, updates, blockBindings, patched),
                            200, "", NotLocated)

\* as decisionOnEdit, without the check of line 952 that the edit is pending
decisionOnEdit_decidedAgain(editRecord, decision, requestedWordIndex) ==
    LET isNumber == requestedWordIndex # NoWordIndex
        hasWordChanges == Len(editRecord.wordChanges) > 0
    IN  IF isNumber /\ ~hasWordChanges
        THEN DecisionResult(editRecord, workingBlocks, workingDocxBuffer, NoPatchCall,
                            400, "no-word-level", NotLocated)
        ELSE IF isNumber
        THEN wordLevelDecision(editRecord, decision, requestedWordIndex)
        ELSE wholeEditDecision(editRecord, decision, hasWordChanges)

\* lines 949-1054: the decision on an edit that exists
decisionOnEdit(editRecord, decision, requestedWordIndex) ==
    LET isNumber == requestedWordIndex # NoWordIndex
        derivedWordChanges ==
            IF isNumber /\ Len(editRecord.wordChanges) = 0
            THEN deriveWordChanges(editRecord.originalText, editRecord.proposedText)
            ELSE <<>>
        derived ==
            IF Len(derivedWordChanges) > 0
            THEN [editRecord EXCEPT
                     !.wordChanges = derivedWordChanges,
                     !.wordChangeStatuses =
                         normalizeWordChangeStatuses(derivedWordChanges, @)]
            ELSE editRecord
        hasWordChanges == Len(derived.wordChanges) > 0
        useWordLevelDecision == isNumber /\ hasWordChanges
    IN  IF editRecord.status # "pending"
        THEN DecisionResult(editRecord, workingBlocks, workingDocxBuffer, NoPatchCall,
                            409, "already-decided", NotLocated)
        ELSE IF isNumber /\ ~useWordLevelDecision
        THEN DecisionResult(derived, workingBlocks, workingDocxBuffer, NoPatchCall,
                            400, "no-word-level", NotLocated)
        ELSE IF useWordLevelDecision
        THEN wordLevelDecision(derived, decision, requestedWordIndex)
        ELSE wholeEditDecision(derived, decision, hasWordChanges)

\* POST /api/session/:id/edits/:editId/decision
decisionResponse(editId, decision, requestedWordIndex, result) ==
    IF result.status = 200
    THEN [Respond("decision", 200, "") EXCEPT
             !.editId = editId, !.decision = decision,
             !.wordChangeIndex = requestedWordIndex,
             !.expectedStart = result.expectedStart, !.start = result.start]
    ELSE [Respond("decision", result.status, result.error) EXCEPT
             !.expectedStart = result.expectedStart, !.start = result.start]

Decision(editId, decision, requestedWordIndex) ==
    IF ~editExists(proposalHistory, editId)
    THEN /\ response' = Respond("decision", 404, "edit-not-found")
         /\ patchCall' = NoPatchCall
         /\ UNCHANGED <<sourceBlocks, workingBlocks, blockBindings, sourceDocxBuffer,
                        workingDocxBuffer, proposalHistory>>
    ELSE \E result \in {decisionOnEdit(editAt(proposalHistory, editId), decision,
                                       requestedWordIndex)} :
             /\ proposalHistory' = setEdit(proposalHistory, editId, result.edit)
             /\ workingBlocks' = result.blocks
             /\ sourceBlocks' = writtenThrough(sourceBlocks, workingBlocks, result.blocks)
             /\ workingDocxBuffer' = result.buffer
             /\ patchCall' = result.patch
             /\ response' = decisionResponse(editId, decision, requestedWordIndex, result)
             /\ UNCHANGED <<blockBindings, sourceDocxBuffer>>

\* the ids of the pending edits from batch b, position e on, in history order
RECURSIVE pendingEditsFrom(_, _, _)
pendingEditsFrom(history, b, e) ==
    IF b > Len(history) THEN <<>>
    ELSE IF e > Len(history[b].edits) THEN pendingEditsFrom(history, b + 1, 1)
    ELSE (IF history[b].edits[e].status = "pending" THEN <<<<b, e>>>> ELSE <<>>)
         \o pendingEditsFrom(history, b, e + 1)

\* as acceptEdits, with one update for each block: that of its first pending edit
RECURSIVE acceptEdits_oneUpdatePerBlock(_, _, _, _)
acceptEdits_oneUpdatePerBlock(pendingEdits, history, blocks, updates) ==
    IF Len(pendingEdits) = 0
    THEN [history |-> history, blocks |-> blocks, updates |-> updates]
    ELSE LET edit == editAt(history, Head(pendingEdits))
             accepted == [edit EXCEPT
                             !.status = "accepted",
                             !.wordChangeStatuses =
                                 IF Len(edit.wordChanges) > 0
                                 THEN allStatus(edit.wordChanges, "accepted")
                                 ELSE @]
         IN  acceptEdits_oneUpdatePerBlock(Tail(pendingEdits),
                 setEdit(history, Head(pendingEdits), accepted),
                 setBlockText(blocks, edit.blockId, edit.proposedText),
                 IF \E k \in 1..Len(updates) : updates[k].blockId = edit.blockId THEN updates
                 ELSE Append(updates, [blockId |-> edit.blockId, text |-> edit.proposedText]))

\* lines 441-455: the loop over the pending edits
RECURSIVE acceptEdits(_, _, _, _)
acceptEdits(pendingEdits, history, blocks, updates) ==
    IF Len(pendingEdits) = 0
    THEN [history |-> history, blocks |-> blocks, updates |-> updates]
    ELSE LET edit == editAt(history, Head(pendingEdits))
             accepted == [edit EXCEPT
                             !.status = "accepted",
                             !.wordChangeStatuses =
                                 IF Len(edit.wordChanges) > 0
                                 THEN allStatus(edit.wordChanges, "accepted")
                                 ELSE @]
         IN  acceptEdits(Tail(pendingEdits),
                         setEdit(history, Head(pendingEdits), accepted),
                         setBlockText(blocks, edit.blockId, edit.proposedText),
                         Append(updates, [blockId |-> edit.blockId, text |-> edit.proposedText]))

\* POST /api/session/:id/edits/accept-all, with acceptPendingEditsForSession
AcceptAll ==
    LET pendingEdits == pendingEditsFrom(proposalHistory, 1, 1)
        done == acceptEdits(pendingEdits, proposalHistory, workingBlocks, <<>>)
        patched == applyEditsToDocxBuffer(workingDocxBuffer, done.updates, blockBindings)
    IN  IF Len(pendingEdits) = 0
        THEN /\ response' = Respond("accept-all", 200, "")
             /\ patchCall' = NoPatchCall
             /\ UNCHANGED <<sourceBlocks, workingBlocks, blockBindings, sourceDocxBuffer,
                            workingDocxBuffer, proposalHistory>>
        ELSE IF workingDocxBuffer = NoBuffer
        THEN /\ response' = Respond("accept-all", 500, "buffer-missing")
             /\ patchCall' = NoPatchCall
             /\ UNCHANGED <<sourceBlocks, workingBlocks, blockBindings, sourceDocxBuffer,
                            workingDocxBuffer, proposalHistory>>
        ELSE \E accepted \in {done}, result \in {patched} :
             /\ proposalHistory' = accepted.history
             /\ workingBlocks' = accepted.blocks
             /\ sourceBlocks' = writtenThrough(sourceBlocks, workingBlocks, accepted.blocks)
             /\ workingDocxBuffer' = result.buffer
             /\ patchCall' = PatchCallOf(1, workingDocxBuffer, accepted.updates,
                                         blockBindings, result)
             /\ response' = [Respond("accept-all", 200, "") EXCEPT !.count = Len(pendingEdits)]
             /\ UNCHANGED <<blockBindings, sourceDocxBuffer>>

\* lines 708-724: the loop over the edits of the payload
RECURSIVE manualEdits(_, _, _)
manualEdits(edits, blocks, updates) ==
    IF Len(edits) = 0 THEN [blocks |-> blocks, updates |-> updates]
    ELSE LET edit == Head(edits)
             at == blockIndexOf(blocks, edit.blockId)
             normalizedText == replaceChar(replaceChar(edit.text, NBSP, " "), CR, "")
         IN  IF at = 0 THEN manualEdits(Tail(edits), blocks, updates)
             ELSE IF blocks[at].text = normalizedText THEN manualEdits(Tail(edits), blocks, updates)
             ELSE manualEdits(Tail(edits),
                              [blocks EXCEPT ![at].text = normalizedText],
                              Append(updates, [blockId |-> edit.blockId, text |-> normalizedText]))

\* POST /api/session/:id/manual-edit
ManualEdit(edits) ==
    LET done == manualEdits(edits, workingBlocks, <<>>)
        patched == applyEditsToDocxBuffer(workingDocxBuffer, done.updates, blockBindings)
    IN  IF workingDocxBuffer = NoBuffer \/ Len(workingBlocks) = 0
        THEN /\ response' = Respond("manual-edit", 400, "no-source")
             /\ patchCall' = NoPatchCall
             /\ UNCHANGED <<sourceBlocks, workingBlocks, blockBindings, sourceDocxBuffer,
                            workingDocxBuffer, proposalHistory>>
        ELSE IF Len(done.updates) = 0
        THEN /\ response' = Respond("manual-edit", 200, "")
             /\ patchCall' = NoPatchCall
             /\ workingBlocks' = done.blocks
             /\ sourceBlocks' = writtenThrough(sourceBlocks, workingBlocks, done.blocks)
             /\ UNCHANGED <<blockBindings, sourceDocxBuffer, workingDocxBuffer, proposalHistory>>
        ELSE \E edited \in {done}, result \in {patched} :
             /\ workingBlocks' = edited.blocks
             /\ sourceBlocks' = writtenThrough(sourceBlocks, workingBlocks, edited.blocks)
             /\ workingDocxBuffer' = result.buffer
             /\ patchCall' = PatchCallOf(1, workingDocxBuffer, edited.updates,
                                         blockBindings, result)
             /\ response' = [Respond("manual-edit", 200, "") EXCEPT !.count = Len(edited.updates)]
             /\ UNCHANGED <<blockBindings, sourceDocxBuffer, proposalHistory>>

\* POST /api/session/:id/upload-source
UploadSource(file) ==
    \E parsed \in {parseDocxToBlocks(file)} :
        IF Len(parsed.blocks) = 0
        THEN /\ response' = Respond("upload-source", 400, "no-editable-text")
             /\ patchCall' = NoPatchCall
             /\ UNCHANGED <<sourceBlocks, workingBlocks, blockBindings, sourceDocxBuffer,
                            workingDocxBuffer, proposalHistory>>
        ELSE /\ sourceBlocks' = cloneBlocks(parsed.blocks, "source")
             /\ workingBlocks' = cloneBlocks(parsed.blocks, "working")
             /\ blockBindings' = parsed.blockBindings
             /\ sourceDocxBuffer' = file
             /\ workingDocxBuffer' = file
             /\ proposalHistory' = <<>>
             /\ response' = [Respond("upload-source", 200, "") EXCEPT !.count = Len(parsed.blocks)]
             /\ patchCall' = NoPatchCall

\* DELETE /api/session/:id/source
RemoveSource ==
    /\ sourceBlocks' = <<>>
    /\ workingBlocks' = <<>>
    /\ blockBindings' = NoBindings
    /\ sourceDocxBuffer' = NoBuffer
    /\ workingDocxBuffer' = NoBuffer
    /\ proposalHistory' = <<>>
    /\ response' = Respond("remove-source", 200, "")
    /\ patchCall' = NoPatchCall

\* as normalizeEdits, keeping the edits of unknown blocks and the edits that
\* propose the text the block has
normalizeEdits_unfiltered(blocks, edits) ==
    LET normalized == [i \in 1..Len(edits) |->
                          [blockId |-> edits[i].blockId, proposedText |-> trim(edits[i].proposedText)]]
    IN  SubSeq(normalized, 1, Min(Len(normalized), 20))

\* aiService.ts, lines 83-103
normalizeEdits(blocks, edits) ==
    LET kept == SelectSeq(edits, LAMBDA edit :
                    /\ blockIndexOf(blocks, edit.blockId) # 0
                    /\ trim(blocks[blockIndexOf(blocks, edit.blockId)].text) # trim(edit.proposedText))
        normalized == [i \in 1..Len(kept) |->
                          [blockId |-> kept[i].blockId, proposedText |-> trim(kept[i].proposedText)]]
    IN  SubSeq(normalized, 1, Min(Len(normalized), 20))

\* lines 808-825: the edit proposal made of an edit of the model response
editProposal(blocks, edit) ==
    LET at == blockIndexOf(blocks, edit.blockId)
        originalText == IF at = 0 THEN "" ELSE blocks[at].text
        wordChanges == deriveWordChanges(originalText, edit.proposedText)
    IN  [blockId |-> edit.blockId,
         originalText |-> originalText,
         proposedText |-> edit.proposedText,
         wordChanges |-> wordChanges,
         wordChangeStatuses |-> allStatus(wordChanges, "pending"),
         status |-> "pending"]

(***************************************************************************)
(* The Patch Writer on its own: applyEditsToDocxBuffer applied to packages,*)
(* bindings and batches drawn from bounded sets; the same batch is         *)
(* then applied again to its own result.  patchCall.calls counts the calls.*)
(***************************************************************************)
MaxRunLen == 2
MaxNodes == 2
MaxUpdates == 2
MaxPatchCalls == 2

textNode(text) == [text |-> text, space |-> requiresXmlSpacePreserve(text)]

RunText == "abcdefgh"

\* the paragraphs of 1..MaxNodes text nodes with 0..MaxRunLen characters each
RunLengthParagraphs ==
    UNION { [1..n -> { textNode(slice(RunText, 0, k)) : k \in 0..MaxRunLen }] : n \in 1..MaxNodes }

\* a paragraph with run lengths 5, 0, 3
ExampleParagraph == <<textNode("hello"), textNode(""), textNode("abc")>>

PatchBuffers ==
    { ("word/document.xml" :> <<paragraph, <<>>>>) @@
      ("word/header1.xml" :> <<<<textNode("Hi")>>>>)
        : paragraph \in RunLengthParagraphs \cup {ExampleParagraph} }

\* Block 1 and 2 are bound to paragraphs with text nodes, 3 to a paragraph
\* without text nodes, 4 to a paragraph index that does not exist, 5 to a part
\* that is not in the package; block 9 has no binding.
PatchBindings ==
    (1 :> [partPath |-> "word/document.xml", paragraphIndex |-> 0]) @@
    (2 :> [partPath |-> "word/header1.xml", paragraphIndex |-> 0]) @@
    (3 :> [partPath |-> "word/document.xml", paragraphIndex |-> 1]) @@
    (4 :> [partPath |-> "word/header1.xml", paragraphIndex |-> 5]) @@
    (5 :> [partPath |-> "word/footer1.xml", paragraphIndex |-> 0])

PatchBlockIds == {2, 3, 4, 5, 9}

PatchTexts == {"", "AB", "ABCDEFGHIJ", " x" \o LF \o LF \o "y" \o NBSP}

\* every text for block 1, one text for each other block
PatchUpdates ==
    [blockId : {1}, text : PatchTexts] \cup [blockId : PatchBlockIds, text : {"AB"}]

PatchUpdateLists == UNION { [1..n -> PatchUpdates] : n \in 0..MaxUpdates }

InitPatch ==
    /\ workingDocxBuffer \in PatchBuffers
    /\ blockBindings = PatchBindings
    /\ sourceDocxBuffer = NoBuffer
    /\ sourceBlocks = <<>>
    /\ workingBlocks = <<>>
    /\ proposalHistory = <<>>
    /\ response = NoResponse
    /\ patchCall = NoPatchCall

PatchWith(updates) ==
    /\ \E result \in {applyEditsToDocxBuffer(workingDocxBuffer, updates, blockBindings)} :
           /\ workingDocxBuffer' = result.buffer
           /\ patchCall' = PatchCallOf(patchCall.calls + 1, workingDocxBuffer, updates,
                                       blockBindings, result)
    /\ UNCHANGED <<sourceBlocks, workingBlocks, blockBindings, sourceDocxBuffer,
                   proposalHistory, response>>

PatchApply(updates) ==
    /\ patchCall.calls = 0
    /\ PatchWith(updates)

PatchReapply ==
    /\ patchCall.calls >= 1
    /\ patchCall.calls < MaxPatchCalls
    /\ PatchWith(patchCall.updates)

NextPatch ==
    \/ \E updates \in PatchUpdateLists : PatchApply(updates)
    \/ PatchReapply

SpecPatch == InitPatch /\ [][NextPatch]_vars

(***************************************************************************)
(* The session: requests executed one after another on one session, with   *)
(* uploaded files, model responses and payloads drawn from bounded sets.   *)
(***************************************************************************)
MaxBatches == 1
MaxWordIndex == 2

\* Two blocks: "The cat sat." in three runs, bound to paragraph 1 of the
\* body (paragraph 0 has no text node), and "Hi all", bound to paragraph 1 of
\* the header (paragraph 0 is blank).
SourceFile ==
    ("word/document.xml" :>
        <<<<>>, <<textNode("The "), textNode("cat"), textNode(" sat.")>>>>) @@
    ("word/header1.xml" :> <<<<textNode(" ")>>, <<textNode("Hi all")>>>>)

\* a file without editable text
BlankFile == ("word/document.xml" :> <<<<textNode(" " \o TAB)>>, <<>>>>)

UploadFiles == {SourceFile, BlankFile}

modelEdit(blockId, proposedText) == [blockId |-> blockId, proposedText |-> proposedText]

\* The answers of the model.  The first holds two edits of block 1 with two
\* word changes each: cat -> feline and sat -> slept; cat removed and "." ->
\* "!".  The second holds an insertion in block 1 (no word change), an edit
\* of block 2, an edit of block 9, which no file has, and an edit that
\* proposes the text block 2 has.
ModelResponses ==
    { <<modelEdit(1, "The feline slept."), modelEdit(1, "The sat!")>>,
      <<modelEdit(1, " The big cat sat."), modelEdit(2, "Hi you"),
        modelEdit(9, "Hi you"), modelEdit(2, " Hi all")>> }

manualEdit(blockId, text) == [blockId |-> blockId, text |-> text]

ManualPayloads ==
    { <<manualEdit(1, " a" \o TAB \o "b" \o CR)>>,
      <<manualEdit(9, "Hi"), manualEdit(2, "Hi" \o NBSP \o "all"),
        manualEdit(1, "The cat sat.")>> }

\* the ids of the edits of the history, and the id of no edit
EditIdsOf(history) ==
    UNION { { <<b, e>> : e \in 1..Len(history[b].edits) } : b \in 1..Len(history) }
        \cup {NoEditId}

WordIndexes == {NoWordIndex} \cup 0..MaxWordIndex

\* POST /api/session/:id/propose-edits; edits is the model's answer
ProposeEdits(edits) ==
    /\ Len(proposalHistory) < MaxBatches
    /\ IF Len(workingBlocks) = 0
       THEN /\ response' = Respond("propose-edits", 400, "no-source")
            /\ UNCHANGED proposalHistory
       ELSE LET normalized == normalizeEdits(workingBlocks, edits)
                batch == [mode |-> "custom",
                          edits |-> [i \in 1..Len(normalized) |->
                                        editProposal(workingBlocks, normalized[i])]]
            IN  /\ proposalHistory' = Append(proposalHistory, batch)
                /\ response' = [Respond("propose-edits", 201, "") EXCEPT !.count = Len(normalized)]
    /\ patchCall' = NoPatchCall
    /\ UNCHANGED <<sourceBlocks, workingBlocks, blockBindings, sourceDocxBuffer,
                   workingDocxBuffer>>

\* the session made by createSession
Init ==
    /\ sourceBlocks = <<>>
    /\ workingBlocks = <<>>
    /\ blockBindings = NoBindings
    /\ sourceDocxBuffer = NoBuffer
    /\ workingDocxBuffer = NoBuffer
    /\ proposalHistory = <<>>
    /\ response = NoResponse
    /\ patchCall = NoPatchCall

Next ==
    \/ \E file \in UploadFiles : UploadSource(file)
    \/ RemoveSource
    \/ \E edits \in ManualPayloads : ManualEdit(edits)
    \/ \E edits \in ModelResponses : ProposeEdits(edits)
    \/ \E editId \in EditIdsOf(proposalHistory), decision \in {"accept", "reject"},
          index \in WordIndexes :
           Decision(editId, decision, index)
    \/ AcceptAll

Spec == Init /\ [][Next]_vars

(***************************************************************************)
(* Requests that overlap.  The handlers are async functions: while         *)
(* propose-edits awaits generateEdits (index.ts, line 794), the event loop *)
(* runs other requests of the same session.  generateEdits keeps the array *)
(* of blocks it was called with, so normalizeEdits filters the answer      *)
(* against the blocks of the document that was loaded when the request     *)
(* began, and lines 799-828 then store the batch in the session as it is   *)
(* when the answer arrives.                                                *)
(***************************************************************************)
\* Block ids are uuids (documentService.ts, line 178): the id of a block of
\* the document loaded before is the id of no block of the document loaded
\* now.  parseDocxToBlocks numbers the blocks of every document from 1, so
\* the id of a block of the earlier document is written as its negation.
earlierBlockId(id) == 0 - id

\* propose-edits, with an upload-source of file executed during its await
ProposeEditsAcrossUpload(file, edits) ==
    /\ Len(workingBlocks) # 0
    /\ \E parsed \in {parseDocxToBlocks(file)} :
           /\ Len(parsed.blocks) # 0
           /\ LET normalized == normalizeEdits(workingBlocks, edits)
                  stored == [i \in 1..Len(normalized) |->
                                [normalized[i] EXCEPT !.blockId = earlierBlockId(@)]]
                  batch == [mode |-> "custom",
                            edits |-> [i \in 1..Len(stored) |->
                                          editProposal(parsed.blocks, stored[i])]]
              IN  /\ proposalHistory' = <<batch>>
                  /\ response' = [Respond("propose-edits", 201, "") EXCEPT
                                      !.count = Len(normalized)]
           /\ sourceBlocks' = cloneBlocks(parsed.blocks, "source")
           /\ workingBlocks' = cloneBlocks(parsed.blocks, "working")
           /\ blockBindings' = parsed.blockBindings
           /\ sourceDocxBuffer' = file
           /\ workingDocxBuffer' = file
    /\ patchCall' = NoPatchCall

NextOverlap ==
    \/ \E file \in UploadFiles : UploadSource(file)
    \/ \E edits \in ModelResponses : ProposeEdits(edits)
    \/ \E file \in UploadFiles, edits \in ModelResponses :
           ProposeEditsAcrossUpload(file, edits)
    \/ \E editId \in EditIdsOf(proposalHistory), decision \in {"accept", "reject"} :
           Decision(editId, decision, NoWordIndex)
    \/ AcceptAll

SpecOverlap == Init /\ [][NextOverlap]_vars

(***************************************************************************)
(* The word changes on their own: a session that has loaded a document of  *)
(* one paragraph, and answers of the model that propose one text for it.   *)
(* propose-edits applies deriveWordChanges, and with it the tokenizer, to  *)
(* every pair of a block text and a proposed text.                         *)
(***************************************************************************)
\* the block texts: what parseDocxToBlocks makes of the paragraph
WordTexts ==
    {"The cat sat.", "Don't stop, won't go.", "a b a b", "Hi all", "cat Cat cat", "x",
     "Wait... what?!", "one two three", "it's 9:30", "go; stop"}

\* the proposed texts; two of them hold a run of white space that is not one space
WordProposals ==
    {"The feline slept.", "The  cat slept.", "x y", "Do not stop; go!", "b a", "Hi",
     "cat cat", "one" \o TAB \o "three", "Won't stop", "(none)", "OK."}

WordsFile(text) == ("word/document.xml" :> <<<<textNode(text)>>>>)

\* the session after upload-source of a document of one paragraph
InitWords ==
    \E text \in WordTexts :
        \E parsed \in {parseDocxToBlocks(WordsFile(text))} :
            /\ sourceBlocks = cloneBlocks(parsed.blocks, "source")
            /\ workingBlocks = cloneBlocks(parsed.blocks, "working")
            /\ blockBindings = parsed.blockBindings
            /\ sourceDocxBuffer = WordsFile(text)
            /\ workingDocxBuffer = WordsFile(text)
            /\ proposalHistory = <<>>
            /\ response = [Respond("upload-source", 200, "") EXCEPT !.count = Len(parsed.blocks)]
            /\ patchCall = NoPatchCall

NextWords == \E text \in WordProposals : ProposeEdits(<<modelEdit(1, text)>>)

SpecWords == InitWords /\ [][NextWords]_vars

(***************************************************************************)
(* The locator on its own: a session that has loaded "The cat sat." and    *)
(* holds one proposed edit of it.  Manual edits rewrite the block between  *)
(* the word-level accepts, so that the token of a word change is looked    *)
(* for in texts that hold it elsewhere, in another case, inside a word or  *)
(* not at all.                                                             *)
(***************************************************************************)
LocateTexts ==
    {"The Cat sat.", "The Cat cat.", "cat, so cat", "concat Cat", "x CAT y cat",
     "The dog sat.", "The cats sat.", "cat x cat", "The cat sat", "So. The cat sat."}

LocateProposals == {"The dog sat.", "The cat sat!", "A dog sat."}

\* the session after upload-source of "The cat sat." and a propose-edits
\* whose answer proposes one text for the block
InitLocate ==
    \E parsed \in {parseDocxToBlocks(WordsFile("The cat sat."))}, text \in LocateProposals :
        /\ sourceBlocks = cloneBlocks(parsed.blocks, "source")
        /\ workingBlocks = cloneBlocks(parsed.blocks, "working")
        /\ blockBindings = parsed.blockBindings
        /\ sourceDocxBuffer = WordsFile("The cat sat.")
        /\ workingDocxBuffer = WordsFile("The cat sat.")
        /\ proposalHistory =
               <<[mode |-> "custom",
                  edits |-> [i \in {1} |->
                                editProposal(parsed.blocks,
                                    normalizeEdits(parsed.blocks, <<modelEdit(1, text)>>)[i])]]>>
        /\ response = [Respond("propose-edits", 201, "") EXCEPT !.count = 1]
        /\ patchCall = NoPatchCall

NextLocate ==
    \/ \E text \in LocateTexts : ManualEdit(<<manualEdit(1, text)>>)
    \/ \E editId \in EditIdsOf(proposalHistory) \ {NoEditId}, index \in 0..MaxWordIndex :
           Decision(editId, "accept", index)

SpecLocate == InitLocate /\ [][NextLocate]_vars

(***************************************************************************)
(* index.ts: the safety filter of the grammar analysis                     *)
(***************************************************************************)
\* the characters of \w in a regular expression
RegexWordChars == (WordChars \ {"'"}) \cup {"_"}

SentenceLevelWords ==
    {"delete", "remove", "rewrite", "reword", "shorten", "condense", "summarise", "summarize",
     "merge", "split", "replace sentence", "drop sentence"}

\* lines 132-139: one of the words, between word boundaries, in any case
allowsSentenceLevelChanges(customInstructions) ==
    /\ Len(trim(customInstructions)) > 0
    /\ \E text \in {toLowerCase(customInstructions)}, word \in SentenceLevelWords :
           \E i \in 0..(Len(text) - Len(word)) :
               /\ slice(text, i, i + Len(word)) = word
               /\ charAt(text, i - 1) \notin RegexWordChars
               /\ charAt(text, i + Len(word)) \notin RegexWordChars

\* lines 122-125: . ! or ? followed by white space or by the end of the text
countSentenceMarkers(text) ==
    Cardinality({ i \in 0..(Len(text) - 1) :
                    /\ charAt(text, i) \in {".", "!", "?"}
                    /\ (i = Len(text) - 1 \/ charAt(text, i + 1) \in WhiteSpace) })

\* lines 127-130: the maximal runs of characters of [A-Za-z0-9']
countWordTokens(text) ==
    Cardinality({ i \in 0..(Len(text) - 1) :
                    /\ charAt(text, i) \in WordChars
                    /\ charAt(text, i - 1) \notin WordChars })

NoRemovals ==
    [removedWordCount |-> 0, unchangedWordCount |-> 0, maxRemovedRun |-> 0,
     currentRemovedRun |-> 0]

\* as countRemovals, with a run that unchanged text does not end
countRemovals_runAcrossUnchanged(counts, part) ==
    LET tokens == countWordTokens(part.value)
    IN  IF part.removed
        THEN [counts EXCEPT !.removedWordCount = @ + tokens,
                            !.currentRemovedRun = @ + tokens,
                            !.maxRemovedRun = Max(@, counts.currentRemovedRun + tokens)]
        ELSE IF part.added THEN [counts EXCEPT !.currentRemovedRun = 0]
        ELSE [counts EXCEPT !.unchangedWordCount = @ + tokens]

\* lines 175-187: the body of the loop over the parts of the diff
countRemovals(counts, part) ==
    LET tokens == countWordTokens(part.value)
    IN  IF part.removed
        THEN [counts EXCEPT !.removedWordCount = @ + tokens,
                            !.currentRemovedRun = @ + tokens,
                            !.maxRemovedRun = Max(@, counts.currentRemovedRun + tokens)]
        ELSE IF part.added THEN [counts EXCEPT !.currentRemovedRun = 0]
        ELSE [counts EXCEPT !.unchangedWordCount = @ + tokens,
                            !.currentRemovedRun = 0]

\* lines 169-187: the loop, from part index on (0-based)
RECURSIVE countAllRemovals(_, _, _)
countAllRemovals(parts, index, counts) ==
    IF counts.currentRemovedRun >= 0 /\ index >= Len(parts) THEN counts
    ELSE countAllRemovals(parts, index + 1, countRemovals(counts, parts[index + 1]))

\* Math.floor(originalWordCount * 0.75) and Math.floor(originalWordCount * 0.35),
\* which the floating-point products give exactly for counts under 180
floorOf75Percent(count) == (count * 3) \div 4

floorOf35Percent(count) == (count * 35) \div 100

\* lines 141-200
isGrammarSafeEdit(originalText, proposedText, allowSentenceLevelChanges) ==
    LET original == trim(originalText)
        proposed == trim(proposedText)
        originalWordCount == countWordTokens(original)
        proposedWordCount == countWordTokens(proposed)
        counts == countAllRemovals(diffWords(original, proposed), 0, NoRemovals)
    IN  IF original = "" \/ proposed = "" \/ original = proposed THEN FALSE
        ELSE IF allowSentenceLevelChanges THEN TRUE
        ELSE IF countSentenceMarkers(proposed) < countSentenceMarkers(original) THEN FALSE
        ELSE IF originalWordCount >= 10 /\ proposedWordCount < floorOf75Percent(originalWordCount)
             THEN FALSE
        ELSE IF originalWordCount >= 8 /\ counts.unchangedWordCount <= 1 THEN FALSE
        ELSE IF counts.removedWordCount > Max(6, floorOf35Percent(originalWordCount)) THEN FALSE
        ELSE IF counts.maxRemovedRun >= 8 THEN FALSE
        ELSE TRUE

\* POST /api/session/:id/analyze-grammar, lines 846-922; edits is the model's
\* answer
AnalyzeGrammar(customInstructions, edits) ==
    /\ Len(proposalHistory) < MaxBatches
    /\ IF Len(workingBlocks) = 0
       THEN /\ response' = Respond("analyze-grammar", 400, "no-source")
            /\ UNCHANGED proposalHistory
       ELSE \E safeEdits \in
                {SelectSeq(normalizeEdits(workingBlocks, edits), LAMBDA edit :
                     isGrammarSafeEdit(
                         IF blockIndexOf(workingBlocks, edit.blockId) = 0 THEN ""
                         ELSE workingBlocks[blockIndexOf(workingBlocks, edit.blockId)].text,
                         edit.proposedText,
                         allowsSentenceLevelChanges(customInstructions)))} :
                /\ proposalHistory' =
                       Append(proposalHistory,
                              [mode |-> "grammar",
                               prompt |-> trim(customInstructions),
                               edits |-> [i \in 1..Len(safeEdits) |->
                                             editProposal(workingBlocks, safeEdits[i])]])
                /\ response' = [Respond("analyze-grammar", 201, "")
                                   EXCEPT !.count = Len(safeEdits)]
    /\ patchCall' = NoPatchCall
    /\ UNCHANGED <<sourceBlocks, workingBlocks, blockBindings, sourceDocxBuffer,
                   workingDocxBuffer>>

(***************************************************************************)
(* The grammar analysis on its own: a session that has loaded a document   *)
(* of one paragraph, and one analysis of it; the model's answer proposes   *)
(* one text for the block, and the instructions ask for a sentence-level   *)
(* change or do not.                                                       *)
(***************************************************************************)
Words8 == "k l m n o p q r."

Words9 == "a b c d e f g h i."

Words10 == "a b c d e f g h i j."

Words23 == "a b c d e f g h i j k l m n o p q r s t u v w."

GrammarTexts == {Words8, Words9, Words10, Words23, "The teh cat sat on mat.", "Hi all. Bye all."}

\* the texts the model proposes for the 23 words
LongProposals ==
    {"a b g h i n o p q r s t u v w X Y Z.", "a b k l m n o p q r s t u v w X Y Z.",
     "a b c d e f g h i j k l m n o p q r s t u v.",
     "a b c d e f g h i j k l m n o p q r s t u v w", "a b."}

\* the texts the model proposes for the other texts
ShortProposals ==
    {"a b c d e f g.", "a b c d e f.", "a b c d e f g h.", "a b c d e f g h i j",
     "a b c d e f g h i j!", "k l.", "k.", "k l m n o p q r s.", "a b.",
     "a, b c d e f g h i j.", "The cat sat on mat.", "The cat sat on the mat.", "Hi all.",
     "Hi all, bye all.", "Hi all. Bye all. See you."}

GrammarProposals(text) == IF text = Words23 THEN LongProposals ELSE ShortProposals

GrammarInstructions == {"", "unremoved text", "Please SHORTEN it."}

\* the session after upload-source of a document of one paragraph
InitGrammar ==
    \E text \in GrammarTexts :
        \E parsed \in {parseDocxToBlocks(WordsFile(text))} :
            /\ sourceBlocks = cloneBlocks(parsed.blocks, "source")
            /\ workingBlocks = cloneBlocks(parsed.blocks, "working")
            /\ blockBindings = parsed.blockBindings
            /\ sourceDocxBuffer = WordsFile(text)
            /\ workingDocxBuffer = WordsFile(text)
            /\ proposalHistory = <<>>
            /\ response = [Respond("upload-source", 200, "") EXCEPT !.count = Len(parsed.blocks)]
            /\ patchCall = NoPatchCall

NextGrammar ==
    \E customInstructions \in GrammarInstructions,
       text \in GrammarProposals(workingBlocks[1].text) :
        AnalyzeGrammar(customInstructions, <<modelEdit(1, text)>>)

SpecGrammar == InitGrammar /\ [][NextGrammar]_vars

(***************************************************************************)
(* The decisions on one edit: a session that has loaded a document of one  *)
(* paragraph and holds one proposed edit of it, on which word changes are  *)
(* accepted and rejected one by one, in any order, until every word change *)
(* is decided or a decision on the whole edit is made.                     *)
(***************************************************************************)
\* a block text and the text the model proposes for it
DecidePairs ==
    { <<"The cat sat.", "The feline slept.">>, <<"cat,dog", "Cat dog">>,
      <<"a b a b", "b a">>, <<"one two three", "x y">>, <<"it's 9:30", "it's 930">>,
      <<"cat Cat cat", "cat cat">>, <<"Hi all", "Hi">> }

\* the session after upload-source and a propose-edits whose answer proposes
\* one text for the block
InitDecide ==
    \E pair \in DecidePairs :
        \E parsed \in {parseDocxToBlocks(WordsFile(pair[1]))} :
            /\ sourceBlocks = cloneBlocks(parsed.blocks, "source")
            /\ workingBlocks = cloneBlocks(parsed.blocks, "working")
            /\ blockBindings = parsed.blockBindings
            /\ sourceDocxBuffer = WordsFile(pair[1])
            /\ workingDocxBuffer = WordsFile(pair[1])
            /\ proposalHistory =
                   <<[mode |-> "custom",
                      edits |-> [i \in {1} |->
                                    editProposal(parsed.blocks,
                                        normalizeEdits(parsed.blocks,
                                                       <<modelEdit(1, pair[2])>>)[i])]]>>
            /\ response = [Respond("propose-edits", 201, "") EXCEPT !.count = 1]
            /\ patchCall = NoPatchCall

NextDecide ==
    \E editId \in EditIdsOf(proposalHistory) \ {NoEditId}, decision \in {"accept", "reject"},
       index \in WordIndexes :
        Decision(editId, decision, index)

SpecDecide == InitDecide /\ [][NextDecide]_vars

(***************************************************************************)
(* The requests whose Patch Writer call fails: the promise of              *)
(* applyEditsToDocxBuffer rejects (the package cannot be loaded or         *)
(* generated), the await throws and the handler's catch answers 500.  What *)
(* the handler has assigned before the await stays assigned: the session   *)
(* is the object of the store, changed in place.                           *)
(***************************************************************************)
\* the decision request on an edit of the history, lines 924-1075; with
\* patchFails the await at line 1013 or 1043 throws
DecisionMayFail(editId, decision, requestedWordIndex, patchFails) ==
    /\ editExists(proposalHistory, editId)
    /\ \E result \in {decisionOnEdit(editAt(proposalHistory, editId), decision,
                                     requestedWordIndex)} :
           IF patchFails
           THEN /\ result.patch # NoPatchCall
                /\ proposalHistory' = setEdit(proposalHistory, editId,
                       IF requestedWordIndex = NoWordIndex THEN result.edit
                       ELSE [result.edit EXCEPT !.status = "pending"])
                /\ workingBlocks' = result.blocks
                /\ sourceBlocks' = writtenThrough(sourceBlocks, workingBlocks, result.blocks)
                /\ response' = Respond("decision", 500, "patch-failed")
                /\ patchCall' = NoPatchCall
                /\ UNCHANGED <<blockBindings, sourceDocxBuffer, workingDocxBuffer>>
           ELSE /\ proposalHistory' = setEdit(proposalHistory, editId, result.edit)
                /\ workingBlocks' = result.blocks
                /\ sourceBlocks' = writtenThrough(sourceBlocks, workingBlocks, result.blocks)
                /\ workingDocxBuffer' = result.buffer
                /\ patchCall' = result.patch
                /\ response' = decisionResponse(editId, decision, requestedWordIndex, result)
                /\ UNCHANGED <<blockBindings, sourceDocxBuffer>>

\* the accept-all request, lines 1077-1094 and 428-464, with a throw at line 457
AcceptAllPatchFails ==
    /\ Len(pendingEditsFrom(proposalHistory, 1, 1)) > 0
    /\ workingDocxBuffer # NoBuffer
    /\ \E accepted \in {acceptEdits(pendingEditsFrom(proposalHistory, 1, 1), proposalHistory,
                                    workingBlocks, <<>>)} :
           /\ proposalHistory' = accepted.history
           /\ workingBlocks' = accepted.blocks
           /\ sourceBlocks' = writtenThrough(sourceBlocks, workingBlocks, accepted.blocks)
           /\ response' = Respond("accept-all", 500, "patch-failed")
           /\ patchCall' = NoPatchCall
           /\ UNCHANGED <<blockBindings, sourceDocxBuffer, workingDocxBuffer>>

NextThrow ==
    \/ \E editId \in EditIdsOf(proposalHistory) \ {NoEditId}, decision \in {"accept", "reject"},
          index \in WordIndexes, patchFails \in BOOLEAN :
           DecisionMayFail(editId, decision, index, patchFails)
    \/ AcceptAll
    \/ AcceptAllPatchFails

SpecThrow == InitDecide /\ [][NextThrow]_vars

(***************************************************************************)
(* Two accepting decisions that overlap.  A handler runs up to its await   *)
(* of applyEditsToDocxBuffer, whose argument is the working buffer it      *)
(* reads then; while it is suspended the handler of another request runs   *)
(* up to its own await, reading the same buffer.  Each handler assigns the *)
(* buffer it is given back when it resumes, so the session keeps the       *)
(* buffer of the call that completes last.  The edits are of different     *)
(* blocks, so that what one handler computes does not depend on what the   *)
(* other has assigned before its await.                                    *)
(***************************************************************************)
OverlappingDecisions(editA, indexA, editB, indexB) ==
    /\ editA # editB
    /\ editAt(proposalHistory, editA).blockId # editAt(proposalHistory, editB).blockId
    /\ \E results \in {[request \in {<<editA, indexA>>, <<editB, indexB>>} |->
                          decisionOnEdit(editAt(proposalHistory, request[1]), "accept",
                                         request[2])]} :
       \E first \in {results[<<editA, indexA>>]}, second \in {results[<<editB, indexB>>]} :
           /\ first.status = 200 /\ first.patch # NoPatchCall
           /\ second.status = 200 /\ second.patch # NoPatchCall
           /\ proposalHistory' =
                  setEdit(setEdit(proposalHistory, editA, first.edit), editB, second.edit)
           /\ \E blocks \in {[i \in 1..Len(workingBlocks) |->
                                IF workingBlocks[i].id = editAt(proposalHistory, editA).blockId
                                THEN first.blocks[i] ELSE second.blocks[i]]} :
                  /\ workingBlocks' = blocks
                  /\ sourceBlocks' = writtenThrough(sourceBlocks, workingBlocks, blocks)
           /\ \E last \in {<<editA, indexA, first>>, <<editB, indexB, second>>} :
                  /\ workingDocxBuffer' = last[3].buffer
                  /\ patchCall' = last[3].patch
                  /\ response' = decisionResponse(last[1], "accept", last[2], last[3])
           /\ UNCHANGED <<blockBindings, sourceDocxBuffer>>

NextBoth ==
    \/ UploadSource(SourceFile)
    \/ \E edits \in ModelResponses : ProposeEdits(edits)
    \/ \E editA \in EditIdsOf(proposalHistory) \ {NoEditId},
          editB \in EditIdsOf(proposalHistory) \ {NoEditId},
          indexA \in WordIndexes, indexB \in WordIndexes :
           OverlappingDecisions(editA, indexA, editB, indexB)
    \/ AcceptAll
    \/ \E payload \in ManualPayloads : ManualEdit(payload)

SpecBoth == Init /\ [][NextBoth]_vars

(***************************************************************************)
(* Properties of the session (Spec)                                        *)
(***************************************************************************)
\* what a session holds of the loaded document
session ==
    <<sourceBlocks, workingBlocks, blockBindings, sourceDocxBuffer, workingDocxBuffer,
      proposalHistory>>

\* the ids of the edits of the history
Edits(history) == EditIdsOf(history) \ {NoEditId}

\* the step is a request whose response is the 409 of the locator's failure
TokenNotFound == response'.op = "decision" /\ response'.error = "token-not-found"

\* C1: a word-level accept that cannot locate its token fails with the
\* token-not-found error and leaves the session exactly as it was: word
\* statuses, edit status, block text and working document.
C1_TokenNotFoundChangesNothing ==
    [][TokenNotFound => (response'.status = 409 /\ session' = session)]_vars

\* C2: a word change's status, once accepted or rejected, is not changed by
\* any later request on the same loaded document.
C2_WordStatusTerminal ==
    [][\A editId \in Edits(proposalHistory) :
          editExists(proposalHistory', editId) =>
              LET before == editAt(proposalHistory, editId).wordChangeStatuses
                  after == editAt(proposalHistory', editId).wordChangeStatuses
              IN  \A k \in 1..Len(before) :
                      before[k] # "pending" => (k <= Len(after) /\ after[k] = before[k])]_vars

\* C3: once an edit is accepted or rejected, every decision request on it is
\* refused with 409 and changes nothing of the session, no request changes
\* the edit (accept-all included), and the edit only goes away when a source
\* is uploaded or removed.
C3_EditStatusTerminal ==
    [][\A editId \in Edits(proposalHistory) :
          editAt(proposalHistory, editId).status # "pending" =>
              /\ \A decision \in {"accept", "reject"}, index \in WordIndexes :
                     Decision(editId, decision, index) =>
                         (response'.status = 409 /\ session' = session)
              /\ IF editExists(proposalHistory', editId)
                 THEN editAt(proposalHistory', editId) = editAt(proposalHistory, editId)
                 ELSE response'.op \in {"upload-source", "remove-source"}]_vars

\* a decision on a decided edit was refused, and so was one after accept-all
C3_Witness ==
    /\ response.error = "already-decided"
    /\ \E editId \in Edits(proposalHistory) :
           /\ editAt(proposalHistory, editId).status = "rejected"
           /\ Len(editAt(proposalHistory, editId).wordChanges) > 0
    /\ \E editId \in Edits(proposalHistory) :
           editAt(proposalHistory, editId).status = "accepted"

\* the aggregate of word statuses, as the rule states it
Aggregate(statuses) ==
    IF "pending" \in {statuses[i] : i \in 1..Len(statuses)} THEN "pending"
    ELSE IF "accepted" \in {statuses[i] : i \in 1..Len(statuses)} THEN "accepted"
    ELSE "rejected"

\* C4, as stated: the status of every accepted edit is the aggregate of its
\* wordChangeStatuses.
C4_AcceptedIsAggregate ==
    \A editId \in Edits(proposalHistory) :
        editAt(proposalHistory, editId).status = "accepted" =>
            Aggregate(editAt(proposalHistory, editId).wordChangeStatuses) = "accepted"

\* C4, amended: the status of every accepted edit that has at least one word
\* change is the aggregate of its wordChangeStatuses.
C4_AcceptedIsAggregateOfWordChanges ==
    \A editId \in Edits(proposalHistory) :
        LET edit == editAt(proposalHistory, editId)
        IN  (edit.status = "accepted" /\ Len(edit.wordChanges) > 0) =>
                /\ Len(edit.wordChangeStatuses) = Len(edit.wordChanges)
                /\ Aggregate(edit.wordChangeStatuses) = "accepted"

\* an edit was accepted by word-level decisions, one accepted and one rejected
C4_Witness ==
    \E editId \in Edits(proposalHistory) :
        /\ editAt(proposalHistory, editId).status = "accepted"
        /\ editAt(proposalHistory, editId).wordChangeStatuses = <<"rejected", "accepted">>

\* len(replacement) - len(from) of a word change
Shift(change) ==
    (IF change.to = "(removed)" THEN 0 ELSE Len(change.to)) - Len(change.from)

\* the sum of the shifts of the word changes whose positions are in the set
RECURSIVE ShiftSum(_, _)
ShiftSum(wordChanges, positions) ==
    IF positions = {} THEN 0
    ELSE LET j == CHOOSE j \in positions : TRUE
         IN  Shift(wordChanges[j]) + ShiftSum(wordChanges, positions \ {j})

\* the expected position of word change k of the edit, as the rule states it
ExpectedPosition(edit, k) ==
    LET change == edit.wordChanges[k]
        prior == { j \in (1..Len(edit.wordChanges)) \ {k} :
                     /\ edit.wordChangeStatuses[j] = "accepted"
                     /\ edit.wordChanges[j].start < change.start }
    IN  change.start + ShiftSum(edit.wordChanges, prior)

\* the step is a word-level accept that succeeded
WordAccepted ==
    /\ response'.op = "decision" /\ response'.status = 200
    /\ response'.decision = "accept" /\ response'.wordChangeIndex # NoWordIndex

\* C5: a word-level accept looks for its token at change.start plus the sum
\* of len(replacement) - len(from) over the other accepted word changes of
\* the edit that start before it; on "The cat sat." with cat -> feline
\* accepted, sat -> slept is looked for at 11 and gives "The feline slept.".
C5_ExpectedPosition ==
    [][WordAccepted =>
          LET edit == editAt(proposalHistory', response'.editId)
              k == response'.wordChangeIndex + 1
              at == blockIndexOf(workingBlocks, edit.blockId)
          IN  /\ response'.expectedStart = ExpectedPosition(edit, k)
              /\ (/\ edit.originalText = "The cat sat."
                  /\ edit.proposedText = "The feline slept."
                  /\ edit.wordChangeStatuses[1] = "accepted"
                  /\ workingBlocks[at].text = "The feline sat."
                  /\ k = 2)
                 => /\ response'.expectedStart = 11
                    /\ workingBlocks'[at].text = "The feline slept."]_vars

\* sat -> slept was accepted after cat -> feline and found at 11
C5_Witness ==
    /\ response.op = "decision" /\ response.status = 200
    /\ response.wordChangeIndex = 1 /\ response.decision = "accept"
    /\ response.expectedStart = 11 /\ response.start = 11
    /\ editAt(proposalHistory, response.editId).originalText = "The cat sat."
    /\ editAt(proposalHistory, response.editId).wordChangeStatuses = <<"accepted", "accepted">>
    /\ workingBlocks[1].text = "The feline slept."

\* C6: the text of a working block holds no line feed, carriage return or
\* tab and neither starts nor ends with a space.
C6_BlockTextNormalized ==
    \A i \in 1..Len(workingBlocks) :
        LET text == workingBlocks[i].text
        IN  /\ \A k \in 0..(Len(text) - 1) : charAt(text, k) \notin {LF, CR, TAB}
            /\ Len(text) > 0 => (charAt(text, 0) # " " /\ charAt(text, Len(text) - 1) # " ")

(***************************************************************************)
(* Properties of the Patch Writer (SpecPatch)                              *)
(***************************************************************************)
\* the parts, the number of paragraphs of each and the number of text nodes of each paragraph
Shape(buffer) ==
    [part \in DOMAIN buffer |-> [i \in 1..Len(buffer[part]) |-> Len(buffer[part][i])]]

\* the text of every text node, without the xml:space attribute
NodeTexts(buffer) ==
    [part \in DOMAIN buffer |->
        [i \in 1..Len(buffer[part]) |->
            [k \in 1..Len(buffer[part][i]) |-> buffer[part][i][k].text]]]

\* the update resolves through the bindings of the call
Resolves(call, update) == update.blockId \in DOMAIN call.bindings

\* the update of the call writes text nodes: it is bound to an existing
\* paragraph of an existing part, and the paragraph has text nodes
Writes(call, update) ==
    /\ Resolves(call, update)
    /\ LET binding == call.bindings[update.blockId]
       IN  /\ binding.partPath \in DOMAIN call.before
           /\ binding.paragraphIndex + 1 \in DOMAIN call.before[binding.partPath]
           /\ Len(call.before[binding.partPath][binding.paragraphIndex + 1]) > 0

WrittenParts(call) ==
    { call.bindings[call.updates[i].blockId].partPath :
        i \in { k \in 1..Len(call.updates) : Writes(call, call.updates[k]) } }

\* C7: applying a batch with the Patch Writer changes neither the set of
\* parts, nor the number of paragraphs of a part, nor the number of text nodes
\* of a paragraph.
C7_ShapePreserved ==
    [][Shape(workingDocxBuffer') = Shape(workingDocxBuffer)]_vars

\* a batch was applied that wrote text nodes in two parts
C7_Witness ==
    /\ patchCall.calls >= 1
    /\ Cardinality(WrittenParts(patchCall)) = 2
    /\ workingDocxBuffer # patchCall.before

\* C8: a part of the batch in which no text node was written is not
\* serialized again and not replaced in the package.
C8_OnlyWrittenPartsRewritten ==
    patchCall.rewritten \subseteq WrittenParts(patchCall)

\* C9: applying the same single-block update a second time leaves the text of
\* every text node (hence the paragraph text) as the first application made it.
C9_Idempotent ==
    [][(/\ patchCall.calls >= 1
        /\ patchCall'.calls = patchCall.calls + 1
        /\ patchCall'.updates = patchCall.updates
        /\ Len(patchCall.updates) = 1)
       => NodeTexts(workingDocxBuffer') = NodeTexts(workingDocxBuffer)]_vars

\* a single update was applied twice to a paragraph of several text nodes,
\* the first application having changed the text
C9_Witness ==
    /\ patchCall.calls = 2
    /\ Len(patchCall.updates) = 1
    /\ Writes(patchCall, patchCall.updates[1])
    /\ patchCall.updates[1].blockId = 1
    /\ Len(workingDocxBuffer["word/document.xml"][1]) > 1
    /\ Len(patchCall.updates[1].text) > MaxRunLen

\* C10: a call with an empty update list, or with updates none of which has a
\* binding, returns a copy of the input package and rewrites no part.
C10_NoOp ==
    [][(/\ patchCall'.calls = patchCall.calls + 1
        /\ \A i \in 1..Len(patchCall'.updates) : ~Resolves(patchCall', patchCall'.updates[i]))
       => /\ workingDocxBuffer' = workingDocxBuffer
          /\ patchCall'.rewritten = {}
          /\ patchCall'.copy]_vars

\* a non-empty batch none of whose updates has a binding was applied
C10_Witness ==
    /\ patchCall.calls = 1
    /\ Len(patchCall.updates) = MaxUpdates
    /\ \A i \in 1..Len(patchCall.updates) : ~Resolves(patchCall, patchCall.updates[i])

\* the step is a call of the Patch Writer
PatchCalled == patchCall'.calls = patchCall.calls + 1

\* update k of the call is the last of the call that writes its paragraph
LastWriter(call, k) ==
    /\ Writes(call, call.updates[k])
    /\ \A j \in (k + 1)..Len(call.updates) :
           Writes(call, call.updates[j]) =>
               call.bindings[call.updates[j].blockId] # call.bindings[call.updates[k].blockId]

\* the text of the paragraph the block is bound to
BoundText(buffer, bindings, blockId) ==
    paragraphText(buffer[bindings[blockId].partPath][bindings[blockId].paragraphIndex + 1])

\* C11: an update without binding, with an absent part, with a missing
\* paragraph index or with a paragraph without text nodes is skipped, and
\* every other update of the batch is written to its paragraph: after the
\* call the paragraph reads the sanitized text of the last update bound to it.
C11_SkippedUpdatesStopNothing ==
    [][PatchCalled =>
          \A k \in 1..Len(patchCall'.updates) :
              LastWriter(patchCall', k) =>
                  BoundText(workingDocxBuffer', patchCall'.bindings,
                            patchCall'.updates[k].blockId)
                      = sanitizeReplacementText(patchCall'.updates[k].text)]_vars

\* a batch was applied whose first update was skipped for a paragraph
\* without text nodes and whose second update changed a paragraph of the
\* same part
C11_Witness ==
    /\ patchCall.calls = 1
    /\ Len(patchCall.updates) = 2
    /\ patchCall.updates[1].blockId = 3
    /\ patchCall.updates[2].blockId = 1
    /\ BoundText(workingDocxBuffer, patchCall.bindings, 1) = "ABCDEFGHIJ"
    /\ BoundText(patchCall.before, patchCall.bindings, 1) # "ABCDEFGHIJ"

(***************************************************************************)
(* Properties of accept-all                                                *)
(***************************************************************************)
\* the step is an accept-all that found pending edits and called the Patch Writer
AcceptedAll == response'.op = "accept-all" /\ response'.status = 200 /\ patchCall'.calls = 1

\* the positions of the updates of the call that wrote text nodes
WrittenUpdates(call) == { k \in 1..Len(call.updates) : Writes(call, call.updates[k]) }

\* C12: the accepted count returned by accept-all is the number of edits
\* whose text the Patch Writer applied to the working document, and a pending
\* edit whose update was skipped (no binding, or a paragraph without text
\* nodes) is not marked accepted.
C12_AcceptedCountIsApplied ==
    [][AcceptedAll =>
          LET pendingEdits == pendingEditsFrom(proposalHistory, 1, 1)
          IN  /\ response'.count = Cardinality(WrittenUpdates(patchCall'))
              /\ \A k \in 1..Len(pendingEdits) :
                     k \notin WrittenUpdates(patchCall') =>
                         editAt(proposalHistory', pendingEdits[k]).status # "accepted"]_vars

(***************************************************************************)
(* Properties of the source copy                                           *)
(***************************************************************************)
\* the step is a decision, an accept-all or a manual-edit request on a loaded source
EditingRequest ==
    /\ response'.op \in {"decision", "accept-all", "manual-edit"}
    /\ sourceDocxBuffer # NoBuffer

\* C13: once a source document is loaded, no decision (whole-edit or
\* word-level), accept-all or manual-edit request changes the source blocks or
\* the source document buffer: a write to a working block or to the working
\* buffer is never read through the source copy.
C13_SourceNeverWritten ==
    [][EditingRequest =>
          (sourceBlocks' = sourceBlocks /\ sourceDocxBuffer' = sourceDocxBuffer)]_vars

\* a manual edit and then an accepted word change have rewritten block 1 of
\* the working copy, in the blocks and in the document, and the source copy
\* reads as it was loaded
C13_Witness ==
    /\ response.op = "decision" /\ response.status = 200
    /\ response.wordChangeIndex # NoWordIndex
    /\ patchCall.calls = 1
    /\ sourceDocxBuffer = SourceFile
    /\ sourceBlocks = cloneBlocks(parseDocxToBlocks(SourceFile).blocks, "source")
    /\ workingBlocks[1].text # sourceBlocks[1].text
    /\ workingBlocks[2].text # sourceBlocks[2].text
    /\ workingDocxBuffer # sourceDocxBuffer

(***************************************************************************)
(* Properties of the whole-edit decision                                   *)
(***************************************************************************)
\* the step is a successful decision without wordChangeIndex
WholeEditDecided ==
    /\ response'.op = "decision" /\ response'.status = 200
    /\ response'.wordChangeIndex = NoWordIndex

\* C14: a whole-edit decision on a pending edit sets, in the one step, the
\* status of the edit and every word-change status to the decision.  On
\* accept the block reads exactly proposedText and one Patch Writer call with
\* the one update (block, proposedText) has written it to the bound
\* paragraph, whatever the block read before; on reject neither the blocks
\* nor the document change and the Patch Writer is not called.
C14_WholeEditDecision ==
    [][WholeEditDecided =>
          LET id == response'.editId
              before == editAt(proposalHistory, id)
              after == editAt(proposalHistory', id)
              decided == statusOf(response'.decision)
              at == blockIndexOf(workingBlocks, before.blockId)
          IN  /\ before.status = "pending"
              /\ after.status = decided
              /\ \A i \in 1..Len(after.wordChangeStatuses) : after.wordChangeStatuses[i] = decided
              /\ Len(after.wordChangeStatuses) = Len(after.wordChanges)
              /\ response'.decision = "accept" =>
                     /\ at # 0
                     /\ workingBlocks' = setBlockText(workingBlocks, before.blockId,
                                                      before.proposedText)
                     /\ workingBlocks'[at].text = before.proposedText
                     /\ patchCall'.calls = 1
                     /\ patchCall'.before = workingDocxBuffer
                     /\ patchCall'.updates =
                            <<[blockId |-> before.blockId, text |-> before.proposedText]>>
                     /\ BoundText(workingDocxBuffer', blockBindings, before.blockId)
                            = sanitizeReplacementText(before.proposedText)
              /\ response'.decision = "reject" =>
                     /\ workingBlocks' = workingBlocks
                     /\ workingDocxBuffer' = workingDocxBuffer
                     /\ patchCall' = NoPatchCall]_vars

\* the edit "The feline slept." was accepted whole when the bound paragraph
\* no longer read the edit's original text
C14_Witness ==
    /\ response.op = "decision" /\ response.status = 200
    /\ response.wordChangeIndex = NoWordIndex /\ response.decision = "accept"
    /\ editExists(proposalHistory, response.editId)
    /\ LET edit == editAt(proposalHistory, response.editId)
       IN  /\ edit.proposedText = "The feline slept."
           /\ edit.wordChangeStatuses = <<"accepted", "accepted">>
           /\ patchCall.calls = 1
           /\ BoundText(patchCall.before, blockBindings, edit.blockId) # edit.originalText
           /\ workingBlocks[1].text = "The feline slept."
           /\ BoundText(workingDocxBuffer, blockBindings, 1) = "The feline slept."

(***************************************************************************)
(* Properties of the stored proposals                                      *)
(***************************************************************************)
\* the edit of the model's answer names a working block and proposes a text
\* other than the text of that block
Proposes(blocks, edit) ==
    /\ blockIndexOf(blocks, edit.blockId) # 0
    /\ blocks[blockIndexOf(blocks, edit.blockId)].text # edit.proposedText

C16_WordChangeSpans ==
    \A id \in Edits(proposalHistory) :
        LET edit == editAt(proposalHistory, id)
        IN  \A i \in 1..Len(edit.wordChanges) :
                LET change == edit.wordChanges[i]
                IN  /\ 0 <= change.start
                    /\ change.start < change.end
                    /\ change.end <= Len(edit.originalText)
                    /\ change.end = change.start + Len(change.from)
                    /\ slice(edit.originalText, change.start, change.end) = change.from

\* the texts the session holds: block texts, and the texts of the edits
SessionTexts ==
    { workingBlocks[i].text : i \in 1..Len(workingBlocks) }
        \cup { editAt(proposalHistory, id).originalText : id \in Edits(proposalHistory) }
        \cup { editAt(proposalHistory, id).proposedText : id \in Edits(proposalHistory) }

\* the span is a run of word characters that no word character precedes or follows
MaximalWord(text, span) ==
    /\ \A i \in span.start..(span.end - 1) : charAt(text, i) \in WordChars
    /\ span.start > 0 => charAt(text, span.start - 1) \notin WordChars
    /\ span.end < Len(text) => charAt(text, span.end) \notin WordChars

\* the span is one punctuation character
OnePunctuation(text, span) ==
    span.end = span.start + 1 /\ charAt(text, span.start) \in PunctChars

Tokenized(text, spans) ==
    /\ \A k \in 1..Len(spans) :
           /\ 0 <= spans[k].start /\ spans[k].start < spans[k].end /\ spans[k].end <= Len(text)
           /\ slice(text, spans[k].start, spans[k].end) = spans[k].value
           /\ MaximalWord(text, spans[k]) \/ OnePunctuation(text, spans[k])
    /\ \A k \in 1..(Len(spans) - 1) : spans[k].end <= spans[k + 1].start
    /\ \A i \in 0..(Len(text) - 1) :
           (\E k \in 1..Len(spans) : spans[k].start <= i /\ i < spans[k].end)
               <=> charAt(text, i) \in WordChars \cup PunctChars

\* C17: the spans of tokenize(text) are in increasing position and do not
\* overlap, text reads value at [start, end), each span is a maximal run of
\* characters of [A-Za-z0-9'] or one character of . , ; : ! ?, and every
\* other character is in no span.  The values for "Don't stop, won't go."
\* are Don't, stop, ",", won't, go, ".".
C17_Tokenize ==
    /\ \A text \in SessionTexts :
           /\ Tokenized(text, extractAtomicTokenSpans(text))
           /\ extractAtomicTokens(text) =
                  [k \in 1..Len(extractAtomicTokenSpans(text)) |->
                      extractAtomicTokenSpans(text)[k].value]
    /\ "Don't stop, won't go." \in SessionTexts =>
           extractAtomicTokens("Don't stop, won't go.")
               = <<"Don't", "stop", ",", "won't", "go", ".">>

\* the whole of "Don't stop, won't go." was replaced: deriveWordChanges has
\* tokenized it, and the word changes are its six tokens at their positions
C17_Witness ==
    \E id \in Edits(proposalHistory) :
        LET edit == editAt(proposalHistory, id)
        IN  /\ edit.originalText = "Don't stop, won't go."
            /\ edit.proposedText = "(none)"
            /\ [k \in 1..Len(edit.wordChanges) |->
                   <<edit.wordChanges[k].from, edit.wordChanges[k].start, edit.wordChanges[k].end>>]
                   = << <<"Don't", 0, 5>>, <<"stop", 6, 10>>, <<",", 10, 11>>,
                        <<"won't", 12, 17>>, <<"go", 18, 20>>, <<".", 20, 21>> >>

(***************************************************************************)
(* Properties of the decisions, one edit at a time                         *)
(***************************************************************************)
\* the edits other than id are as they were, and so are the blocks other
\* than the block of the edit id
OnlyEditChanged(id) ==
    /\ DOMAIN proposalHistory' = DOMAIN proposalHistory
    /\ \A b \in 1..Len(proposalHistory) :
           /\ proposalHistory'[b].mode = proposalHistory[b].mode
           /\ Len(proposalHistory'[b].edits) = Len(proposalHistory[b].edits)
    /\ \A other \in Edits(proposalHistory) \ {id} :
           editAt(proposalHistory', other) = editAt(proposalHistory, other)
    /\ Len(workingBlocks') = Len(workingBlocks)
    /\ \A i \in 1..Len(workingBlocks) :
           workingBlocks[i].id # editAt(proposalHistory, id).blockId =>
               workingBlocks'[i] = workingBlocks[i]

\* C18: a decision request, whole-edit or word-level, changes the status and
\* the word-change statuses of the edit it names only, and the text of no
\* block other than the block of that edit.
C18_DecidedIndividually ==
    [][response'.op = "decision" =>
          IF response'.status = 200
          THEN OnlyEditChanged(response'.editId)
          ELSE \/ proposalHistory' = proposalHistory /\ workingBlocks' = workingBlocks
               \/ \E id \in Edits(proposalHistory) : OnlyEditChanged(id)]_vars

\* the second edit of a batch, an edit of block 2, was accepted: block 2
\* reads its text, the first edit is pending and its block reads as before
C18_Witness ==
    /\ response.op = "decision" /\ response.status = 200 /\ response.editId = <<1, 2>>
    /\ editAt(proposalHistory, <<1, 2>>).status = "accepted"
    /\ editAt(proposalHistory, <<1, 2>>).blockId = 2
    /\ editAt(proposalHistory, <<1, 1>>).status = "pending"
    /\ editAt(proposalHistory, <<1, 1>>).blockId = 1
    /\ workingBlocks[2].text = "Hi you"
    /\ workingBlocks[1].text = "The cat sat."

(***************************************************************************)
(* Properties of the distribution over text nodes (SpecPatch)              *)
(***************************************************************************)
\* the update k of the call is the only update that writes its paragraph
OnlyWriter(call, k) ==
    /\ Writes(call, call.updates[k])
    /\ \A j \in 1..Len(call.updates) :
           (j # k /\ Writes(call, call.updates[j])) =>
               call.bindings[call.updates[j].blockId] # call.bindings[call.updates[k].blockId]

\* the number of characters of the chunks before chunk i
RECURSIVE TakenBefore(_, _)
TakenBefore(chunks, i) == IF i <= 1 THEN 0 ELSE TakenBefore(chunks, i - 1) + Len(chunks[i - 1])

\* chunks is the replacement dealt to nodes of the given lengths
Distributed(originalLengths, chunks, replacement) ==
    /\ Len(chunks) = Len(originalLengths)
    /\ joinStrings(chunks) = replacement
    /\ IF \A i \in 1..Len(originalLengths) : originalLengths[i] = 0
       THEN /\ chunks[1] = replacement
            /\ \A i \in 2..Len(chunks) : chunks[i] = ""
       ELSE /\ \A i \in 1..(Len(chunks) - 1) :
                   LET cursor == TakenBefore(chunks, i)
                       take == Min(originalLengths[i], Len(replacement) - cursor)
                   IN  chunks[i] = slice(replacement, cursor, cursor + take)
            /\ chunks[Len(chunks)] = sliceFrom(replacement, TakenBefore(chunks, Len(chunks)))

\* C19: in a paragraph of more than one text node the Patch Writer writes
\* one chunk per node, in node order: every node but the last gets the next
\* min(original length, remaining) characters of the sanitized replacement
\* and the last node the rest, so the chunks joined are the sanitized
\* replacement; if every node was empty the first node gets all of it.  Run
\* lengths 5, 0, 3 with "ABCDEFGHIJ" give "ABCDE", "", "FGHIJ".
C19_ChunksPerNode ==
    [][PatchCalled =>
          \A k \in 1..Len(patchCall'.updates) :
              OnlyWriter(patchCall', k) =>
                  LET binding == patchCall'.bindings[patchCall'.updates[k].blockId]
                      nodes == patchCall'.before[binding.partPath][binding.paragraphIndex + 1]
                      chunks == NodeTexts(workingDocxBuffer')[binding.partPath]
                                                             [binding.paragraphIndex + 1]
                      replacement == sanitizeReplacementText(patchCall'.updates[k].text)
                  IN  /\ Len(nodes) > 1 =>
                          Distributed([i \in 1..Len(nodes) |-> Len(nodes[i].text)],
                                      chunks, replacement)
                      /\ (nodes = ExampleParagraph /\ replacement = "ABCDEFGHIJ") =>
                          chunks = <<"ABCDE", "", "FGHIJ">>]_vars

\* the paragraph with run lengths 5, 0, 3 was written with "ABCDEFGHIJ"
C19_Witness ==
    /\ patchCall.calls = 1
    /\ Len(patchCall.updates) = 1
    /\ patchCall.updates[1] = [blockId |-> 1, text |-> "ABCDEFGHIJ"]
    /\ patchCall.before["word/document.xml"][1] = ExampleParagraph
    /\ NodeTexts(workingDocxBuffer)["word/document.xml"][1] = <<"ABCDE", "", "FGHIJ">>

(***************************************************************************)
(* Properties of the locator (SpecLocate)                                  *)
(***************************************************************************)
\* text holds token at start, in the same case or in any case, and the
\* occurrence has token boundaries
OccursAt(text, token, start, anyCase) ==
    /\ 0 <= start /\ start + Len(token) <= Len(text)
    /\ IF anyCase
       THEN toLowerCase(slice(text, start, start + Len(token))) = toLowerCase(token)
       ELSE slice(text, start, start + Len(token)) = token
    /\ hasTokenBoundaries(text, start, token)

Occurrences(text, token, anyCase) ==
    { start \in 0..Len(text) : OccursAt(text, token, start, anyCase) }

\* start is the member of pool closest to expectedStart, the smaller of two at one distance
Closest(pool, expectedStart, start) ==
    /\ start \in pool
    /\ \A other \in pool :
           \/ Abs(start - expectedStart) < Abs(other - expectedStart)
           \/ Abs(start - expectedStart) = Abs(other - expectedStart) /\ start <= other

\* start is what the priority order gives for token in text, -1 for not found
Located(text, token, expectedStart, start) ==
    IF OccursAt(text, token, expectedStart, FALSE) THEN start = expectedStart
    ELSE IF OccursAt(text, token, expectedStart, TRUE) THEN start = expectedStart
    ELSE IF Occurrences(text, token, FALSE) # {}
         THEN Closest(Occurrences(text, token, FALSE), expectedStart, start)
    ELSE IF Occurrences(text, token, TRUE) # {}
         THEN Closest(Occurrences(text, token, TRUE), expectedStart, start)
    ELSE start = -1

\* the step is the word-level accept of word change index of the edit, and it
\* has looked for the token
LocatorRan(editId, index) ==
    /\ Decision(editId, "accept", index)
    /\ response'.status = 200 \/ response'.error = "token-not-found"

\* C20: the locator takes the boundary-valid exact match at the expected
\* position; else the boundary-valid case-insensitive match there; else the
\* boundary-valid exact occurrence closest to the expected position, or, if
\* the text has no such occurrence, the closest boundary-valid
\* case-insensitive one, the smaller start winning a tie; the request fails
\* with token-not-found only if the text has no boundary-valid occurrence.
C20_LocatorPriority ==
    [][\A editId \in Edits(proposalHistory), index \in 0..MaxWordIndex :
          LocatorRan(editId, index) =>
              LET edit == editAt(proposalHistory, editId)
                  text == workingBlocks[blockIndexOf(workingBlocks, edit.blockId)].text
                  token == edit.wordChanges[index + 1].from
              IN  /\ Located(text, token, response'.expectedStart, response'.start)
                  /\ response'.error = "token-not-found" <=>
                         Occurrences(text, token, TRUE) = {}
                  /\ response'.status = 200 =>
                         workingBlocks'[blockIndexOf(workingBlocks, edit.blockId)].text =
                             slice(text, 0, response'.start)
                                 \o replacementOf(edit.wordChanges[index + 1])
                                 \o sliceFrom(text, response'.start + Len(token))]_vars

\* cat -> dog, expected at 4, was accepted on "cat, so cat", which holds cat
\* at 0 and at 8: the occurrence at 0 was replaced
C20_Witness ==
    /\ response.op = "decision" /\ response.status = 200
    /\ response.expectedStart = 4 /\ response.start = 0
    /\ workingBlocks[1].text = "dog, so cat"

\* the step is a word-level accept of word change index of the edit that
\* has found its token
TokenFound(editId, index) == Decision(editId, "accept", index) /\ response'.status = 200

\* C21: for a token made of word characters the locator returns no start at
\* which the character just before the span or just after it is a word
\* character of the current text, so that no word change is applied inside a
\* longer word; a punctuation token is matched whatever surrounds it.
C21_TokenBoundaries ==
    [][\A editId \in Edits(proposalHistory), index \in 0..MaxWordIndex :
          TokenFound(editId, index) =>
              LET edit == editAt(proposalHistory, editId)
                  text == workingBlocks[blockIndexOf(workingBlocks, edit.blockId)].text
                  token == edit.wordChanges[index + 1].from
                  start == response'.start
                  end == start + Len(token)
              IN  /\ toLowerCase(slice(text, start, end)) = toLowerCase(token)
                  /\ (\A i \in 0..(Len(token) - 1) : charAt(token, i) \in WordChars) =>
                         /\ start > 0 => charAt(text, start - 1) \notin WordChars
                         /\ end < Len(text) => charAt(text, end) \notin WordChars
                  /\ (token = "." /\ OccursAt(text, ".", response'.expectedStart, FALSE)) =>
                         start = response'.expectedStart]_vars

\* "." -> "!" was accepted in "The cat sat.", where a word character precedes the "."
C21_Witness ==
    /\ response.op = "decision" /\ response.status = 200
    /\ response.start = 11 /\ response.expectedStart = 11
    /\ workingBlocks[1].text = "The cat sat!"

\* cat was not found in "The cats sat.", which holds it inside a longer word
C21_InsideWordWitness ==
    /\ response.op = "decision" /\ response.error = "token-not-found"
    /\ response.expectedStart = 4
    /\ workingBlocks[1].text = "The cats sat."

(***************************************************************************)
(* Properties of the pairing of removed and added tokens (SpecWords)       *)
(***************************************************************************)
\* the clusters of the diff: the maximal runs of added and removed parts,
\* each as the pair of its removed tokens and its added tokens
RECURSIVE Clusters(_)
Clusters(parts) ==
    IF Len(parts) = 0 THEN <<>>
    ELSE IF isUnchanged(Head(parts)) THEN Clusters(Tail(parts))
    ELSE LET n == partRun(parts, FALSE)
             run == SubSeq(parts, 1, n)
         IN  <<[removed |-> extractAtomicTokens(joinParts(run, LAMBDA p : p.removed)),
                added |-> extractAtomicTokens(joinParts(run, LAMBDA p : p.added))]>>
             \o Clusters(SubSeq(parts, n + 1, Len(parts)))

\* the number of removed tokens of the clusters before cluster c
RECURSIVE RemovedBefore(_, _)
RemovedBefore(clusters, c) ==
    IF c <= 1 THEN 0
    ELSE Len(clusters[c - 1].removed) + RemovedBefore(clusters, c - 1)

\* C22: the word changes of deriveWordChanges(original, proposed) are, cluster
\* after cluster of the diff, one word change per removed token in order: the
\* i-th removed token goes to the i-th added token of the cluster if there is
\* one, else to the last added token of the cluster if it has any, else to
\* "(removed)"; a cluster without removed tokens gives no word change.
C22_ClusterPairing ==
    \A id \in Edits(proposalHistory) :
        LET edit == editAt(proposalHistory, id)
            clusters == Clusters(diffWords(edit.originalText, edit.proposedText))
        IN  /\ Len(edit.wordChanges) = RemovedBefore(clusters, Len(clusters) + 1)
            /\ \A c \in 1..Len(clusters) :
                   \A i \in 1..Len(clusters[c].removed) :
                       LET change == edit.wordChanges[RemovedBefore(clusters, c) + i]
                           added == clusters[c].added
                       IN  /\ change.from = clusters[c].removed[i]
                           /\ i <= Len(added) => change.to = added[i]
                           /\ (i > Len(added) /\ Len(added) > 0) => change.to = added[Len(added)]
                           /\ Len(added) = 0 => change.to = Removed

\* "one two three" became "x y": the cluster of one and two has the one
\* added token x, which both go to, and three goes to y
C22_Witness ==
    \E id \in Edits(proposalHistory) :
        LET edit == editAt(proposalHistory, id)
        IN  /\ edit.originalText = "one two three"
            /\ edit.proposedText = "x y"
            /\ [k \in 1..Len(edit.wordChanges) |->
                   <<edit.wordChanges[k].from, edit.wordChanges[k].to>>]
                   = << <<"one", "x">>, <<"two", "x">>, <<"three", "y">> >>

\* "one two three" lost the word two and nothing was added for it
C22_RemovedWitness ==
    \E id \in Edits(proposalHistory) :
        LET edit == editAt(proposalHistory, id)
        IN  /\ edit.originalText = "one two three"
            /\ Len(edit.wordChanges) = 1
            /\ edit.wordChanges[1].from = "two"
            /\ edit.wordChanges[1].to = Removed

\* "x" became "x y": the only cluster adds y and removes nothing
C22_AddedOnlyWitness ==
    \E id \in Edits(proposalHistory) :
        LET edit == editAt(proposalHistory, id)
        IN  /\ edit.originalText = "x"
            /\ edit.proposedText = "x y"
            /\ Len(edit.wordChanges) = 0

(***************************************************************************)
(* Properties of the safety filter of the grammar analysis (SpecGrammar)   *)
(***************************************************************************)
\* the analysis of this step was made under instructions that do not permit
\* sentence-level changes, and the model proposed text for block 1
StrictAnalysis(customInstructions, text) ==
    /\ ~allowsSentenceLevelChanges(customInstructions)
    /\ Len(proposalHistory') = Len(proposalHistory) + 1
    /\ proposalHistory'[Len(proposalHistory')].mode = "grammar"
    /\ proposalHistory'[Len(proposalHistory')].prompt = trim(customInstructions)
    /\ \A i \in 1..Len(proposalHistory'[Len(proposalHistory')].edits) :
           proposalHistory'[Len(proposalHistory')].edits[i].proposedText = trim(text)
    /\ AnalyzeGrammar(customInstructions, <<modelEdit(1, text)>>)

\* the batch of the analysis holds the proposed text
Kept(text) ==
    \E i \in 1..Len(proposalHistory'[Len(proposalHistory')].edits) :
        proposalHistory'[Len(proposalHistory')].edits[i].proposedText = trim(text)

\* C23: with sentence-level changes not permitted, a proposal whose original
\* has at least 10 word tokens and whose word count is under 0.75 times that
\* of the original is rejected.
C23_RetainsThreeQuarters ==
    [][\A customInstructions \in GrammarInstructions,
         text \in GrammarProposals(workingBlocks[1].text) :
          StrictAnalysis(customInstructions, text) =>
              LET originalWordCount == countWordTokens(workingBlocks[1].text)
                  proposedWordCount == countWordTokens(trim(text))
              IN  (originalWordCount >= 10 /\ 4 * proposedWordCount < 3 * originalWordCount)
                      => ~Kept(text)]_vars

\* the word tokens of the parts a..b that are removed, unchanged or of any kind
RECURSIVE WordsOf(_, _, _, _)
WordsOf(parts, a, b, kind) ==
    IF a > b THEN 0
    ELSE (IF \/ kind = "any"
             \/ kind = "removed" /\ parts[a].removed
             \/ kind = "unchanged" /\ isUnchanged(parts[a])
          THEN countWordTokens(parts[a].value) ELSE 0)
             + WordsOf(parts, a + 1, b, kind)

\* removed parts that no added and no unchanged part separates hold at
\* least 8 word tokens
LongRemovedRun(parts) ==
    \E a \in 1..Len(parts), b \in 1..Len(parts) :
        /\ \A k \in a..b : parts[k].removed
        /\ WordsOf(parts, a, b, "any") >= 8

\* more than max(6, floor(0.35 x originalWordCount)) word tokens are removed
ManyRemoved(parts, originalWordCount) ==
    LET removed == WordsOf(parts, 1, Len(parts), "removed")
    IN  removed > 6 /\ 100 * removed > 35 * originalWordCount

\* the checks that come before: the texts differ and are not empty, no
\* sentence marker is lost, three quarters of the words of an original of 10
\* words or more are retained, and an original of 8 words or more keeps more
\* than one word unchanged
EarlierChecks(original, proposed, parts) ==
    /\ original # "" /\ proposed # "" /\ original # proposed
    /\ countSentenceMarkers(proposed) >= countSentenceMarkers(original)
    /\ ~(countWordTokens(original) >= 10
           /\ 4 * countWordTokens(proposed) < 3 * countWordTokens(original))
    /\ ~(countWordTokens(original) >= 8
           /\ WordsOf(parts, 1, Len(parts), "unchanged") <= 1)

C24_RejectedWitness ==
    /\ response.op = "analyze-grammar"
    /\ workingBlocks[1].text = Words9
    /\ proposalHistory[1].prompt = ""
    /\ Len(proposalHistory[1].edits) = 0

(***************************************************************************)
(* Properties of the load (Spec)                                           *)
(***************************************************************************)
\* the last request was an upload-source that loaded its file
Loaded == response.op = "upload-source" /\ response.status = 200

\* the paragraphs of the editable parts of the package that have a text node
\* and a normalized text that is not empty
TextParagraphs(buffer) ==
    { <<partPath, index>> \in
          UNION { {partPath} \X (0..(Len(buffer[partPath]) - 1)) : partPath \in DOMAIN buffer } :
        /\ \E at \in 1..Len(editablePartPaths(buffer)) : editablePartPaths(buffer)[at] = partPath
        /\ Len(buffer[partPath][index + 1]) > 0
        /\ normalizeBlockText(paragraphText(buffer[partPath][index + 1])) # "" }

\* C25: after a load, the binding of every block names a paragraph of its part
\* by its position among all the paragraphs of the part, skipped ones
\* counted: the paragraph it resolves to in the loaded package has the
\* block's text as its normalized text.  A paragraph whose normalized text is
\* empty has no block and no binding: the bound paragraphs are exactly the
\* paragraphs with text, one block each.
C25_BindingsResolve ==
    Loaded =>
        /\ DOMAIN blockBindings = { workingBlocks[i].id : i \in 1..Len(workingBlocks) }
        /\ \A i \in 1..Len(workingBlocks) :
               LET binding == blockBindings[workingBlocks[i].id]
               IN  /\ binding.partPath \in DOMAIN workingDocxBuffer
                   /\ binding.paragraphIndex \in 0..(Len(workingDocxBuffer[binding.partPath]) - 1)
                   /\ normalizeBlockText(BoundText(workingDocxBuffer, blockBindings,
                                                   workingBlocks[i].id)) = workingBlocks[i].text
                   /\ workingBlocks[i].text # ""
        /\ { <<blockBindings[id].partPath, blockBindings[id].paragraphIndex>> :
               id \in DOMAIN blockBindings } = TextParagraphs(workingDocxBuffer)
        /\ Cardinality(TextParagraphs(workingDocxBuffer)) = Len(workingBlocks)

\* the file with a paragraph without text node and a blank paragraph is
\* loaded: both blocks are bound to paragraph 1 of their part
C25_Witness ==
    /\ Loaded
    /\ workingDocxBuffer = SourceFile
    /\ Len(workingBlocks) = 2
    /\ blockBindings[workingBlocks[1].id] = [partPath |-> "word/document.xml", paragraphIndex |-> 1]
    /\ blockBindings[workingBlocks[2].id] = [partPath |-> "word/header1.xml", paragraphIndex |-> 1]

(***************************************************************************)
(* Properties of the working document (Spec)                               *)
(***************************************************************************)
\* the paragraph bound to the block reads the block's text, white space
\* normalized
InSync(buffer, bindings, block) ==
    normalizeBlockText(BoundText(buffer, bindings, block.id)) = normalizeBlockText(block.text)

\* the pending edits of the block, and the last of them in history order
PendingOn(blockId) ==
    { id \in Edits(proposalHistory) :
        /\ editAt(proposalHistory, id).status = "pending"
        /\ editAt(proposalHistory, id).blockId = blockId }

LastPendingOn(blockId) ==
    CHOOSE id \in PendingOn(blockId) :
        \A other \in PendingOn(blockId) :
            other[1] < id[1] \/ (other[1] = id[1] /\ other[2] <= id[2])

\* C26: in every state reached by requests made one after another, the
\* normalized text of the paragraph bound to a working block is the
\* normalized text of the block; when accept-all accepts pending edits of a
\* block, the block and its paragraph end with the proposed text of the last
\* of them in history order.
C26_BlocksInSync ==
    /\ [](\A i \in 1..Len(workingBlocks) :
             InSync(workingDocxBuffer, blockBindings, workingBlocks[i]))
    /\ [][(response'.op = "accept-all" /\ AcceptAll) =>
              \A i \in 1..Len(workingBlocks) :
                  PendingOn(workingBlocks[i].id) # {} =>
                      LET last == editAt(proposalHistory, LastPendingOn(workingBlocks[i].id))
                      IN  /\ workingBlocks'[i].text = last.proposedText
                          /\ normalizeBlockText(BoundText(workingDocxBuffer', blockBindings',
                                                          workingBlocks'[i].id))
                                 = normalizeBlockText(last.proposedText)]_vars

\* accept-all has accepted the two pending edits of block 1: the block and
\* its paragraph read the text of the second
C26_Witness ==
    /\ response.op = "accept-all" /\ response.count = 2
    /\ proposalHistory[1].edits[1].blockId = 1 /\ proposalHistory[1].edits[2].blockId = 1
    /\ proposalHistory[1].edits[1].proposedText = "The feline slept."
    /\ proposalHistory[1].edits[2].proposedText = "The sat!"
    /\ workingBlocks[1].text = "The sat!"
    /\ BoundText(workingDocxBuffer, blockBindings, 1) = "The sat!"

(***************************************************************************)
(* Properties of the word-level decisions of one edit (SpecDecide)         *)
(***************************************************************************)
\* the original text with the accepted word changes from change k down to
\* the first replaced at their spans
RECURSIVE AcceptedText(_, _, _)
AcceptedText(edit, text, k) ==
    IF k > Len(edit.wordChanges) THEN text
    ELSE LET change == edit.wordChanges[k]
             after == AcceptedText(edit, text, k + 1)
         IN  IF edit.wordChangeStatuses[k] # "accepted" THEN after
             ELSE slice(after, 0, change.start)
                      \o (IF change.to = Removed THEN "" ELSE change.to)
                      \o sliceFrom(after, change.end)

\* C27: when only word-level decisions of an edit touch a block that read the
\* edit's original text, every word-level accept of a pending word change
\* finds its token: it does not fail with token-not-found, the token is read
\* at the expected position start + delta, and the block then reads the
\* original text with the accepted word changes replaced at their spans,
\* whatever the order of the decisions.
C27_TokenAtExpectedStart ==
    [][\A editId \in Edits(proposalHistory), index \in 0..MaxWordIndex :
          (/\ response'.op = "decision"
           /\ response'.status = 200 \/ response'.error = "token-not-found"
           /\ Decision(editId, "accept", index)) =>
              LET edit == editAt(proposalHistory, editId)
                  token == edit.wordChanges[index + 1].from
                  text == workingBlocks[1].text
              IN  /\ response'.status = 200
                  /\ response'.start = response'.expectedStart
                  /\ slice(text, response'.start, response'.start + Len(token)) = token
                  /\ workingBlocks'[1].text =
                         AcceptedText(editAt(proposalHistory', editId), edit.originalText, 1)]_vars

\* C30: an edit whose status is rejected has contributed no change to its
\* block: when nothing but decisions on the edit has touched the block, the
\* block and its paragraph read the edit's original text.
C30_RejectedChangesNothing ==
    \A id \in Edits(proposalHistory) :
        LET edit == editAt(proposalHistory, id)
        IN  edit.status = "rejected" =>
                /\ workingBlocks[1].text = edit.originalText
                /\ BoundText(workingDocxBuffer, blockBindings, workingBlocks[1].id)
                       = edit.originalText

(***************************************************************************)
(* Properties of the requests whose Patch Writer call fails (SpecThrow)    *)
(***************************************************************************)
\* C29: when the Patch Writer throws during a whole-edit accept, a word-level
\* accept or accept-all, the request fails and the session is as it was: the
\* working document, the block texts, the edit statuses and the word-change
\* statuses are unchanged.
C29_FailedPatchChangesNothing ==
    [][(response'.status = 500 /\ response'.error = "patch-failed") =>
           UNCHANGED <<workingDocxBuffer, workingBlocks, proposalHistory>>]_vars

(***************************************************************************)
(* Properties of overlapping requests (SpecBoth)                           *)
(***************************************************************************)
\* C28: after two accepting decisions on different blocks that overlap at
\* their Patch Writer calls, the working document holds both accepted texts:
\* the paragraph of every block reads the block's text.
C28_NoLostPatch ==
    [][\A editA \in Edits(proposalHistory), editB \in Edits(proposalHistory),
          indexA \in WordIndexes, indexB \in WordIndexes :
          (response'.op = "decision" /\ response'.status = 200
               /\ OverlappingDecisions(editA, indexA, editB, indexB)) =>
              \A i \in 1..Len(workingBlocks') :
                  InSync(workingDocxBuffer', blockBindings', workingBlocks'[i])]_vars

====
